---------------------------- MODULE Spec2Model ----------------------------
(***************************************************************************)
(* The PayFast ITN pipeline of the repository: the signature verifier, the  *)
(* confirmation step, the pending-data store, the paid-submission store    *)
(* and the ITN handler that promotes pending form data to a paid           *)
(* submission.  Strings are TLA+ strings; a JavaScript object whose key     *)
(* order matters (the decoded notification) is a sequence of <<key, value>> *)
(* pairs, an object whose key order does not matter (form data, a JSONB    *)
(* column) is a function from keys to values.                               *)
(***************************************************************************)
EXTENDS Integers, Sequences, FiniteSets, TLC

(***************************************************************************)
(* JavaScript values                                                        *)
(***************************************************************************)
\* the value of a property that is not there
Undefined == "<undefined>"

\* JavaScript null and SQL NULL in a text column
Null == "<null>"

\* JavaScript truthiness of a string-or-missing value
Truthy(v) == v \notin {Undefined, Null, ""}

\* v || d
OrElse(v, d) == IF Truthy(v) THEN v ELSE d

\* obj[k] on an object held as a function
Get(obj, k) == IF k \in DOMAIN obj THEN obj[k] ELSE Undefined

\* the keys of an ordered object, in insertion order
RECURSIVE KeysOf(_)
KeysOf(data) ==
    IF data = <<>> THEN <<>> ELSE <<Head(data)[1]>> \o KeysOf(Tail(data))

\* data[k] on an ordered object
RECURSIVE Field(_, _)
Field(data, k) ==
    IF data = <<>> THEN Undefined
    ELSE IF Head(data)[1] = k THEN Head(data)[2]
    ELSE Field(Tail(data), k)

\* the properties of an ordered object without their order
AsMap(data) ==
    [k \in {data[i][1] : i \in DOMAIN data} |-> Field(data, k)]

\* a faulty round trip that keeps only the properties with a column of
\* their own; the claims about form-data fidelity must tell it from
\* JsonRoundTrip
JsonKnownFields(obj) ==
    [k \in DOMAIN obj \cap {"submissionId", "businessName", "businessEmail"} |-> obj[k]]

\* the properties of a request that hold an object; every other property
\* of the model's objects holds a string
ObjectKeys == {"formData", "metadata"}

\* null and '' as the value of a property that holds an object
JsonNull == [json |-> "null"]

JsonEmptyString == [json |-> "''"]

\* obj[k] || d for a property that holds an object
ObjectOrElse(obj, k, d) ==
    IF k \in DOMAIN obj /\ obj[k] \notin {JsonNull, JsonEmptyString}
    THEN obj[k] ELSE d

\* JSON.parse(JSON.stringify(obj)), which is what a JSONB column gives
\* back: properties whose value is undefined are not written
JsonRoundTrip(obj) ==
    [k \in {x \in DOMAIN obj : x \in ObjectKeys \/ obj[x] # Undefined} |-> obj[k]]

\* a value as String(v) and a template literal print it
TemplateString(v) ==
    IF v = Undefined THEN "undefined" ELSE IF v = Null THEN "null" ELSE v

(***************************************************************************)
(* Strings                                                                  *)
(***************************************************************************)
CharAt(s, i) == SubSeq(s, i, i)

UpperCaseLetters == "ABCDEFGHIJKLMNOPQRSTUVWXYZ"

LowerCaseLetters == "abcdefghijklmnopqrstuvwxyz"

Digits == "0123456789"

\* s.indexOf(c) + 1 from position i on: the first place of character c in
\* s, 0 when it is not there
IndexIn(c, s, i) ==
    LET at == {j \in i..Len(s) : CharAt(s, j) = c}
    IN  IF at = {} THEN 0 ELSE CHOOSE j \in at : \A k \in at : j <= k

LowerChar(c) ==
    LET i == IndexIn(c, UpperCaseLetters, 1)
    IN  IF i = 0 THEN c ELSE CharAt(LowerCaseLetters, i)

\* String.prototype.toLowerCase
RECURSIVE ToLowerCase(_)
ToLowerCase(s) ==
    IF s = "" THEN ""
    ELSE IF Len(s) = 1 THEN LowerChar(s)
    ELSE LET half == Len(s) \div 2
         IN  ToLowerCase(SubSeq(s, 1, half)) \o ToLowerCase(SubSeq(s, half + 1, Len(s)))

\* white space: the blank and the line feed are the ones the model's
\* strings hold
IsSpace(c) == c \in {" ", "\n"}

TrimStart(s) ==
    LET ink == {j \in 1..Len(s) : ~IsSpace(CharAt(s, j))}
    IN  IF ink = {} THEN ""
        ELSE SubSeq(s, CHOOSE j \in ink : \A k \in ink : j <= k, Len(s))

TrimEnd(s) ==
    LET ink == {j \in 1..Len(s) : ~IsSpace(CharAt(s, j))}
    IN  IF ink = {} THEN ""
        ELSE SubSeq(s, 1, CHOOSE j \in ink : \A k \in ink : j >= k)

\* String.prototype.trim
Trim(s) == TrimEnd(TrimStart(s))

\* the characters encodeURIComponent leaves as they are
UnreservedChars ==
    UpperCaseLetters \o LowerCaseLetters \o Digits \o "-_.!~*'()"

\* encodeURIComponent of one character: the reserved characters the model's
\* strings use
EncodeChar(c) ==
    IF IndexIn(c, UnreservedChars, 1) # 0 THEN c
    ELSE CASE c = " " -> "%20"
           [] c = "@" -> "%40"
           [] c = "&" -> "%26"
           [] c = "=" -> "%3D"
           [] c = "+" -> "%2B"
           [] c = "%" -> "%25"
           [] c = ":" -> "%3A"
           [] c = "/" -> "%2F"
           [] c = "," -> "%2C"
           [] c = "#" -> "%23"

RECURSIVE encodeURIComponent(_)
encodeURIComponent(s) ==
    IF s = "" THEN ""
    ELSE IF Len(s) = 1 THEN EncodeChar(s)
    ELSE LET half == Len(s) \div 2
         IN  encodeURIComponent(SubSeq(s, 1, half)) \o encodeURIComponent(SubSeq(s, half + 1, Len(s)))

\* whether "%20" stands in s at position i
Percent20At(s, i) == i >= 1 /\ i + 2 <= Len(s) /\ SubSeq(s, i, i + 2) = "%20"

\* s.replace(/%20/g, '+') on positions from..to of s: a match gives "+" at
\* its first character and nothing at the two that follow ("%20" cannot
\* overlap itself)
RECURSIVE ReplaceRange(_, _, _)
ReplaceRange(s, from, to) ==
    IF from > to THEN ""
    ELSE IF from = to
    THEN IF Percent20At(s, from) THEN "+"
         ELSE IF Percent20At(s, from - 1) \/ Percent20At(s, from - 2) THEN ""
         ELSE CharAt(s, from)
    ELSE LET mid == (from + to) \div 2
         IN  ReplaceRange(s, from, mid) \o ReplaceRange(s, mid + 1, to)

ReplacePercent20(s) == ReplaceRange(s, 1, Len(s))

\* the value encoding of both the signature string and the confirmation body
PayFastEncode(v) == ReplacePercent20(encodeURIComponent(v))

\* parts.join('&')
RECURSIVE JoinAmp(_)
JoinAmp(parts) ==
    IF parts = <<>> THEN ""
    ELSE IF Len(parts) = 1 THEN Head(parts)
    ELSE Head(parts) \o "&" \o JoinAmp(Tail(parts))

(***************************************************************************)
(* Numbers.  A JavaScript number is NaN, an infinity, or coef * 10^exp with *)
(* coef an integer that does not end in 0 (0 is coef 0, exp 0; the sign of  *)
(* zero is not kept).  Coefficients and exponents have up to nine digits.   *)
(***************************************************************************)
RECURSIVE Num(_, _)
Num(coef, exp) ==
    IF coef = 0 THEN [kind |-> "number", coef |-> 0, exp |-> 0]
    ELSE IF coef % 10 = 0 THEN Num(coef \div 10, exp + 1)
    ELSE [kind |-> "number", coef |-> coef, exp |-> exp]

NaN == [kind |-> "NaN", coef |-> 0, exp |-> 0]

Infinity == [kind |-> "Infinity", coef |-> 0, exp |-> 0]

NegInfinity == [kind |-> "-Infinity", coef |-> 0, exp |-> 0]

\* SQL NULL in a numeric column
NullNum == [kind |-> "null", coef |-> 0, exp |-> 0]

IsDigit(c) == IndexIn(c, Digits, 1) # 0

\* how many digits s holds from position i on
DigitRun(s, i) ==
    LET stop == {j \in i..Len(s) : ~IsDigit(CharAt(s, j))}
    IN  IF i > Len(s) THEN 0
        ELSE IF stop = {} THEN Len(s) - i + 1
        ELSE (CHOOSE j \in stop : \A k \in stop : j <= k) - i

\* the number a string of digits writes
RECURSIVE NatOf(_)
NatOf(s) ==
    IF s = "" THEN 0
    ELSE 10 * NatOf(SubSeq(s, 1, Len(s) - 1)) + (IndexIn(CharAt(s, Len(s)), Digits, 1) - 1)

RECURSIVE Pow10(_)
Pow10(n) == IF n = 0 THEN 1 ELSE 10 * Pow10(n - 1)

Abs(n) == IF n < 0 THEN 0 - n ELSE n

\* the power of ten of the first digit of a number that is not 0
Magnitude(n) == Len(ToString(Abs(n.coef))) + n.exp - 1

\* the first nine digits of a coefficient
NineDigits(coef) == Abs(coef) * Pow10(9 - Len(ToString(Abs(coef))))

\* the double nearest to coef * 10^exp where it leaves the range of the
\* doubles: above 1.7976931348623157e308 it is an infinity, below half of
\* 5e-324 it is 0
ToDouble(coef, exp) ==
    LET n == Num(coef, exp)
        m == Magnitude(n)
    IN  IF n.coef = 0 THEN n
        ELSE IF m > 308 \/ (m = 308 /\ NineDigits(n.coef) > 179769313)
        THEN IF coef < 0 THEN NegInfinity ELSE Infinity
        ELSE IF m < 0 - 324 \/ (m = 0 - 324 /\ NineDigits(n.coef) < 247032823)
        THEN Num(0, 0)
        ELSE n

\* parseFloat, read from left to right; each operator below reads one part
\* of the text and hands what it found to the next.  Last, the exponent:
\* eDigits are its digits ("" when the text has no exponent, which is also
\* the case of an e that no digit follows)
FloatOfParts(neg, mag, m, eNeg, eDigits) ==
    ToDouble(IF neg THEN 0 - mag ELSE mag,
             (IF eNeg THEN 0 - NatOf(eDigits) ELSE NatOf(eDigits)) - m)

\* the digits of the exponent start at position q of body
FloatOfExponent(body, neg, mag, m, eNeg, q) ==
    FloatOfParts(neg, mag, m, eNeg, SubSeq(body, q, q + DigitRun(body, q) - 1))

\* the mantissa, of value mag with m digits after the point, ends before
\* position p of body: an e or E there, and a sign after it, are read
FloatOfMantissa(body, neg, mag, m, p) ==
    IF Len(body) >= p /\ CharAt(body, p) \in {"e", "E"}
    THEN FloatOfExponent(body, neg, mag, m,
             Len(body) > p /\ CharAt(body, p + 1) = "-",
             IF Len(body) > p /\ CharAt(body, p + 1) \in {"-", "+"}
             THEN p + 2 ELSE p + 1)
    ELSE FloatOfParts(neg, mag, m, FALSE, "")

\* body has n digits, then (dot = 1) a point and m digits; with no digit
\* at all the text is no number
FloatOfDigits(body, neg, n, dot, m) ==
    IF n + m = 0 THEN NaN
    ELSE FloatOfMantissa(body, neg,
             NatOf(SubSeq(body, 1, n) \o SubSeq(body, n + 2, n + 1 + m)),
             m, n + dot + m + 1)

\* body has n digits, then (dot = 1) a point
FloatOfPoint(body, neg, n, dot) ==
    FloatOfDigits(body, neg, n, dot, IF dot = 1 THEN DigitRun(body, n + 2) ELSE 0)

\* body starts with n digits
FloatOfInteger(body, neg, n) ==
    FloatOfPoint(body, neg, n,
                 IF Len(body) > n /\ CharAt(body, n + 1) = "." THEN 1 ELSE 0)

\* the text after the sign
FloatOfBody(body, neg) ==
    IF Len(body) >= 8 /\ SubSeq(body, 1, 8) = "Infinity"
    THEN IF neg THEN NegInfinity ELSE Infinity
    ELSE FloatOfInteger(body, neg, DigitRun(body, 1))

\* the text after the leading white space
FloatOfTrimmed(s) ==
    IF s # "" /\ CharAt(s, 1) \in {"-", "+"}
    THEN FloatOfBody(SubSeq(s, 2, Len(s)), CharAt(s, 1) = "-")
    ELSE FloatOfBody(s, FALSE)

\* parseFloat: leading white space, a sign, then Infinity or digits, a point
\* and digits, and an exponent (e or E, a sign, digits); what follows the
\* longest such prefix is ignored, NaN when there is none
ParseFloat(v) == FloatOfTrimmed(TrimStart(v))

\* isNaN on a number
IsNaN(n) == n.kind = "NaN"

\* whether a DECIMAL(10, 2) column refuses a number: an infinity, or a value
\* that rounds to 10^8 or more
DecimalRaises(n) ==
    \/ n.kind \in {"Infinity", "-Infinity"}
    \/ n.kind = "number" /\ n.coef # 0 /\ Magnitude(n) >= 8

\* a number as a DECIMAL(10, 2) column keeps it: rounded to two decimals,
\* the half away from zero; NaN and NULL are kept
DecimalColumn(n) ==
    LET drop == 0 - 2 - n.exp
        unit == Pow10(drop)
        q    == Abs(n.coef) \div unit
        r    == Abs(n.coef) % unit
        up   == IF 2 * r >= unit THEN q + 1 ELSE q
    IN  IF n.kind # "number" \/ n.exp >= 0 - 2 THEN n
        ELSE IF drop > 9 THEN Num(0, 0)
        ELSE Num(IF n.coef < 0 THEN 0 - up ELSE up, 0 - 2)

(***************************************************************************)
(* PayFast configuration (payfast-config)                                   *)
(***************************************************************************)
SandboxMode == "sandbox"

LiveMode == "live"

\* validateMode: the normalized mode, or Null when the mode is not valid
validateMode(mode) ==
    IF ~Truthy(mode) THEN Null
    ELSE LET normalized == Trim(ToLowerCase(mode))
         IN  IF normalized = SandboxMode \/ normalized = LiveMode
             THEN normalized
             ELSE Null

isSandboxMode(normalizedMode) == normalizedMode = SandboxMode

\* a faulty credential lookup that tests the mode only and hands out
\* whatever the variables hold; the claims about a configuration that does
\* not resolve must tell it from getPayFastCredentials
getCredentialsUnchecked(e) ==
    LET normalized == validateMode(Get(e, "PAYFAST_MODE"))
        prefix     == IF isSandboxMode(normalized)
                      THEN "PAYFAST_SANDBOX_" ELSE "PAYFAST_LIVE_"
    IN  IF normalized = Null
        THEN [ok |-> FALSE, merchantId |-> "", passphrase |-> "", mode |-> ""]
        ELSE [ok |-> TRUE,
              merchantId |-> OrElse(Get(e, prefix \o "MERCHANT_ID"), ""),
              passphrase |-> OrElse(Get(e, prefix \o "PASSPHRASE"), ""),
              mode |-> normalized]

\* getPayFastCredentials on the environment e: ok is FALSE where the code
\* throws
getPayFastCredentials(e) ==
    LET normalized == validateMode(Get(e, "PAYFAST_MODE"))
        prefix     == IF isSandboxMode(normalized)
                      THEN "PAYFAST_SANDBOX_" ELSE "PAYFAST_LIVE_"
        merchantId  == Get(e, prefix \o "MERCHANT_ID")
        merchantKey == Get(e, prefix \o "MERCHANT_KEY")
        passphrase  == Get(e, prefix \o "PASSPHRASE")
    IN  IF normalized = Null
        THEN [ok |-> FALSE, merchantId |-> "", passphrase |-> "", mode |-> ""]
        ELSE IF ~Truthy(merchantId) \/ ~Truthy(merchantKey) \/ passphrase = Undefined
        THEN [ok |-> FALSE, merchantId |-> "", passphrase |-> "", mode |-> normalized]
        ELSE [ok |-> TRUE, merchantId |-> merchantId,
              passphrase |-> OrElse(passphrase, ""), mode |-> normalized]

(***************************************************************************)
(* Signature verification and request validation (payfast-validator)        *)
(***************************************************************************)
HexDigits == "0123456789abcdef"

\* the characters of the model's strings
Charset == UnreservedChars \o " @&=+%:/,#"

HexOfChar(c) ==
    LET i == IndexIn(c, Charset, 1)
    IN  CharAt(HexDigits, (i \div 16) + 1) \o CharAt(HexDigits, (i % 16) + 1)

\* crypto.createHash('md5').update(s).digest('hex'): the digest is taken to
\* be free of collisions, so it is a lower-case hex string that names s
RECURSIVE HexOf(_)
HexOf(s) ==
    IF s = "" THEN ""
    ELSE IF Len(s) = 1 THEN HexOfChar(s)
    ELSE LET half == Len(s) \div 2
         IN  HexOf(SubSeq(s, 1, half)) \o HexOf(SubSeq(s, half + 1, Len(s)))

MD5(s) == IF s = "" THEN "d41d" ELSE HexOf(s)

\* the key=value parts of the loop over Object.entries(data), up to the
\* signature field; data lists the entries in the order the object gives
RECURSIVE SignatureParts(_)
SignatureParts(data) ==
    IF data = <<>> THEN <<>>
    ELSE LET key   == Head(data)[1]
             value == Head(data)[2]
         IN  IF key = "signature" THEN <<>>
             ELSE IF value \in {"", Null, Undefined}
             THEN SignatureParts(Tail(data))
             ELSE <<key \o "=" \o PayFastEncode(value)>> \o SignatureParts(Tail(data))

\* the order of two strings by UTF-16 code units, as Array.prototype.sort
\* with no comparator orders keys
CodeUnits == "0123456789ABCDEFGHIJKLMNOPQRSTUVWXYZ_abcdefghijklmnopqrstuvwxyz"

RECURSIVE CodeUnitLess(_, _)
CodeUnitLess(a, b) ==
    IF b = "" THEN FALSE
    ELSE IF a = "" THEN TRUE
    ELSE LET x == IndexIn(CharAt(a, 1), CodeUnits, 1)
             y == IndexIn(CharAt(b, 1), CodeUnits, 1)
         IN  IF x # y THEN x < y
             ELSE CodeUnitLess(SubSeq(a, 2, Len(a)), SubSeq(b, 2, Len(b)))

\* the earlier validatePayFastSignature (google-sheets.js 279-315): the
\* signature field removed wherever it stands, the keys sorted
\* alphabetically, only '' skipped
validatePayFastSignatureSorted(data, passphrase) ==
    LET dataForSigning == SelectSeq(data, LAMBDA f : f[1] # "signature")
        sorted       == SortSeq(dataForSigning, LAMBDA f, g : CodeUnitLess(f[1], g[1]))
        kept         == SelectSeq(sorted, LAMBDA f : f[2] # "")
        paramString  == JoinAmp([i \in DOMAIN kept |->
                            kept[i][1] \o "=" \o PayFastEncode(TemplateString(kept[i][2]))])
        stringToHash == IF Truthy(passphrase)
                        THEN paramString \o "&passphrase=" \o PayFastEncode(passphrase)
                        ELSE paramString
        receivedSignature == ToLowerCase(OrElse(Field(data, "signature"), ""))
    IN  ToLowerCase(MD5(stringToHash)) = receivedSignature

\* a faulty check that accepts every signature; the claims about rejected
\* notifications must tell it from validatePayFastSignature
AcceptAnySignature(data, passphrase) == TRUE

validatePayFastSignature(data, passphrase) ==
    LET paramString  == JoinAmp(SignatureParts(data))
        stringToHash == IF Truthy(passphrase)
                        THEN paramString \o "&passphrase=" \o PayFastEncode(passphrase)
                        ELSE paramString
        calculatedSignature == MD5(stringToHash)
        receivedSignature   == ToLowerCase(OrElse(Field(data, "signature"), ""))
    IN  ToLowerCase(calculatedSignature) = receivedSignature

\* what the confirmation endpoint may answer: a body, or no answer (a
\* network error or the 10 s timeout)
ConfirmReplies ==
    { [failed |-> FALSE, body |-> "VALID"],
      [failed |-> FALSE, body |-> "INVALID"],
      [failed |-> TRUE,  body |-> ""] }

\* confirmWithPayFast resolves with this when the endpoint answers
confirmWithPayFast(reply) == Trim(reply.body) = "VALID"

\* a faulty validatePayFastRequest that skips the merchant and amount
\* checks; the claims about hard rejects must tell it from RequestPrecheck
NoPrecheck(data, merchantId) == ""

\* steps 1 and 2 of validatePayFastRequest, which run before the
\* confirmation call: the error, or "" when both pass
RequestPrecheck(data, merchantId) ==
    IF Field(data, "merchant_id") # merchantId
    THEN "Merchant ID mismatch: expected " \o merchantId \o ", got "
             \o TemplateString(Field(data, "merchant_id"))
    ELSE IF IsNaN(ParseFloat(OrElse(Field(data, "amount_gross"), "0")))
    THEN "Invalid amount format"
    ELSE ""

\* a faulty validatePayFastRequest that rejects when the confirmation
\* endpoint cannot be reached; the claims about the advisory confirmation
\* must tell it from validatePayFastRequest
RejectWhenUnreachable(data, merchantId, reply) ==
    LET pre == RequestPrecheck(data, merchantId)
    IN  IF pre # "" THEN [valid |-> FALSE, error |-> pre]
        ELSE IF reply.failed \/ ~confirmWithPayFast(reply)
        THEN [valid |-> FALSE, error |-> "PayFast server validation failed"]
        ELSE [valid |-> TRUE, error |-> ""]

\* validatePayFastRequest, given the confirmation endpoint's reply
validatePayFastRequest(data, merchantId, reply) ==
    LET pre == RequestPrecheck(data, merchantId)
    IN  IF pre # "" THEN [valid |-> FALSE, error |-> pre]
        ELSE IF ~reply.failed /\ ~confirmWithPayFast(reply)
        THEN [valid |-> FALSE, error |-> "PayFast server validation failed"]
        ELSE [valid |-> TRUE, error |-> ""]

\* a canonical array index: the decimal numeral of an integer from 0 to
\* 2^32 - 2, which an object keeps apart from its other keys
IsArrayIndex(k) ==
    /\ k # ""
    /\ DigitRun(k, 1) = Len(k)
    /\ (Len(k) = 1 \/ CharAt(k, 1) # "0")
    /\ (Len(k) < 10 \/ (Len(k) = 10 /\ CodeUnitLess(k, "4294967295")))

\* data[k] = v on an ordered object, with v a string.  An old key keeps its
\* place; a new array index goes among the array indices, which an object
\* lists first and by value; any other new key goes last; the key
\* __proto__ is the prototype's setter, which ignores a string and makes no
\* property
SetField(data, k, v) ==
    LET less(a, b) == Len(a) < Len(b) \/ (Len(a) = Len(b) /\ CodeUnitLess(a, b))
        lower(f)   == IsArrayIndex(f[1]) /\ less(f[1], k)
    IN  IF k = "__proto__" THEN data
        ELSE IF \E i \in DOMAIN data : data[i][1] = k
        THEN [i \in DOMAIN data |-> IF data[i][1] = k THEN <<k, v>> ELSE data[i]]
        ELSE IF IsArrayIndex(k)
        THEN SelectSeq(data, lower) \o << <<k, v>> >>
                 \o SelectSeq(data, LAMBDA f : ~lower(f))
        ELSE Append(data, <<k, v>>)

\* parseUrlEncodedData: the decoded pairs of the body folded into an object
RECURSIVE parseUrlEncodedData(_)
parseUrlEncodedData(body) ==
    IF body = <<>> THEN <<>>
    ELSE LET last == body[Len(body)]
         IN  SetField(parseUrlEncodedData(SubSeq(body, 1, Len(body) - 1)),
                      last[1], last[2])

(***************************************************************************)
(* The pending-data store and the paid-submission store (database).  A      *)
(* table is the sequence of its rows; time is counted in hours.             *)
(***************************************************************************)
\* INTERVAL '2 hours'
TwoHours == 2

\* the rows of a table with this submission_id
RowsOf(table, submissionId) ==
    SelectSeq(table, LAMBDA row : row.submission_id = submissionId)

\* a faulty upsert that replaces the form data of an existing row and
\* leaves its timestamps; the claims about the refreshed expiry must tell
\* it from storePendingFormData
storePendingKeepingExpiry(table, submissionId, formData, t) ==
    IF RowsOf(table, submissionId) = <<>>
    THEN Append(table, [submission_id |-> submissionId,
                        form_data     |-> JsonRoundTrip(formData),
                        created_at    |-> t,
                        expires_at    |-> t + TwoHours])
    ELSE [i \in DOMAIN table |->
            IF table[i].submission_id = submissionId
            THEN [table[i] EXCEPT !.form_data = JsonRoundTrip(formData)]
            ELSE table[i]]

\* the INSERT ... ON CONFLICT (submission_id) DO UPDATE of
\* storePendingFormData, run at time t
storePendingFormData(table, submissionId, formData, t) ==
    LET excluded == [submission_id |-> submissionId,
                     form_data     |-> JsonRoundTrip(formData),
                     created_at    |-> t,
                     expires_at    |-> t + TwoHours]
    IN  IF RowsOf(table, submissionId) = <<>>
        THEN Append(table, excluded)
        ELSE [i \in DOMAIN table |->
                IF table[i].submission_id = submissionId
                THEN [table[i] EXCEPT !.form_data  = excluded.form_data,
                                      !.created_at = t,
                                      !.expires_at = t + TwoHours]
                ELSE table[i]]

\* a faulty read that filters on the expiry whatever the caller asks; the
\* claims about recovery reads must tell it from getPendingFormData
getPendingUnexpiredOnly(table, submissionId, t, ignoreExpiry) ==
    IF ~Truthy(submissionId) THEN <<>>
    ELSE SelectSeq(table, LAMBDA row :
            row.submission_id = submissionId /\ row.expires_at > t)

\* the rows the SELECT of getPendingFormData returns at time t: none is the
\* code's null, otherwise the code returns the first
getPendingFormData(table, submissionId, t, ignoreExpiry) ==
    IF ~Truthy(submissionId) THEN <<>>
    ELSE IF ignoreExpiry THEN RowsOf(table, submissionId)
    ELSE SelectSeq(table, LAMBDA row :
            row.submission_id = submissionId /\ row.expires_at > t)

\* the table after deletePendingFormData
deletePendingFormData(table, submissionId) ==
    IF ~Truthy(submissionId) THEN table
    ELSE SelectSeq(table, LAMBDA row : row.submission_id # submissionId)

\* a faulty sweep that deletes by age: every record stored before the
\* current hour goes, expired or not; the claims about what the sweep
\* leaves must tell it from cleanupExpiredPendingData
cleanupByAge(table, t) ==
    SelectSeq(table, LAMBDA row : ~(row.created_at < t))

\* the table after cleanupExpiredPendingData at time t
cleanupExpiredPendingData(table, t) ==
    SelectSeq(table, LAMBDA row : ~(row.expires_at < t))

\* a faulty extraction that takes the status column from the payment data
\* the caller passes; the claims about the status column must tell it from
\* coreFields
coreFieldsTrustingCaller(submissionId, formData, paymentData) ==
    [submission_id      |-> submissionId,
     business_name      |-> OrElse(Get(formData, "businessName"), Null),
     owner_first_name   |-> OrElse(Get(formData, "ownerFirstName"), Null),
     owner_last_name    |-> OrElse(Get(formData, "ownerLastName"), Null),
     email              |-> OrElse(Get(formData, "businessEmail"), Null),
     phone              |-> OrElse(Get(formData, "businessPhone"), Null),
     industry           |-> OrElse(Get(formData, "industry"), Null),
     payment_status     |-> OrElse(Get(paymentData, "payment_status"), "PENDING"),
     payfast_payment_id |-> OrElse(Get(paymentData, "pf_payment_id"), Null),
     subscription_token |-> OrElse(Get(paymentData, "token"), Null),
     amount_gross       |-> NullNum,
     amount_net         |-> NullNum]

\* the columns createPaidSubmission extracts from its arguments
coreFields(submissionId, formData, paymentData) ==
    [submission_id      |-> submissionId,
     business_name      |-> OrElse(Get(formData, "businessName"), Null),
     owner_first_name   |-> OrElse(Get(formData, "ownerFirstName"), Null),
     owner_last_name    |-> OrElse(Get(formData, "ownerLastName"), Null),
     email              |-> OrElse(Get(formData, "businessEmail"), Null),
     phone              |-> OrElse(Get(formData, "businessPhone"), Null),
     industry           |-> OrElse(Get(formData, "industry"), Null),
     payment_status     |-> "COMPLETE",
     payfast_payment_id |-> OrElse(Get(paymentData, "pf_payment_id"),
                                   OrElse(Get(paymentData, "pfPaymentId"), Null)),
     subscription_token |-> OrElse(Get(paymentData, "token"), Null),
     amount_gross       |-> IF Truthy(Get(paymentData, "amount_gross"))
                            THEN ParseFloat(Get(paymentData, "amount_gross"))
                            ELSE NullNum,
     amount_net         |-> IF Truthy(Get(paymentData, "amount_net"))
                            THEN ParseFloat(Get(paymentData, "amount_net"))
                            ELSE NullNum]

\* COALESCE(a, b) on a text column and on a numeric column
Coalesce(a, b) == IF a # Null THEN a ELSE b

CoalesceNum(a, b) == IF a.kind # "null" THEN a ELSE b

\* the row the INSERT of createPaidSubmission proposes at time t.  A call
\* without paymentData is a call with the empty object: paymentData?.x is
\* undefined and JSON.stringify(paymentData || {}) is '{}' either way.
PaidInsertRow(submissionId, formData, paymentData, t) ==
    LET c == coreFields(submissionId, formData, paymentData)
    IN  [submission_id      |-> c.submission_id,
         business_name      |-> c.business_name,
         owner_first_name   |-> c.owner_first_name,
         owner_last_name    |-> c.owner_last_name,
         email              |-> c.email,
         phone              |-> c.phone,
         industry           |-> c.industry,
         payment_status     |-> c.payment_status,
         payfast_payment_id |-> c.payfast_payment_id,
         subscription_token |-> c.subscription_token,
         amount_gross       |-> DecimalColumn(c.amount_gross),
         amount_net         |-> DecimalColumn(c.amount_net),
         form_data          |-> JsonRoundTrip(formData),
         payment_data       |-> JsonRoundTrip(paymentData),
         created_at         |-> t,
         updated_at         |-> t]

\* a faulty DO UPDATE SET that replaces the whole row with the proposed one
\* and keeps created_at; the claims about what a second write leaves alone
\* must tell it from PaidConflictUpdate
PaidConflictOverwrite(row, excluded, t) ==
    [excluded EXCEPT !.created_at = row.created_at, !.updated_at = t]

\* the DO UPDATE SET of createPaidSubmission on the row it conflicts with.
\* EXCLUDED.payment_data is never NULL (it is a JSON text), so COALESCE
\* takes it.
PaidConflictUpdate(row, excluded, t) ==
    [row EXCEPT
       !.payment_status     = "COMPLETE",
       !.payfast_payment_id = Coalesce(excluded.payfast_payment_id, row.payfast_payment_id),
       !.subscription_token = Coalesce(excluded.subscription_token, row.subscription_token),
       !.amount_gross       = CoalesceNum(excluded.amount_gross, row.amount_gross),
       !.amount_net         = CoalesceNum(excluded.amount_net, row.amount_net),
       !.payment_data       = excluded.payment_data,
       !.updated_at         = t]

\* a faulty write without the ON CONFLICT clause; the claims about one row
\* per submission must tell it from PaidUpsert
PaidAppend(table, excluded, t) == Append(table, excluded)

\* the submissions table after the upsert of createPaidSubmission at time t
PaidUpsert(table, excluded, t) ==
    IF RowsOf(table, excluded.submission_id) = <<>>
    THEN Append(table, excluded)
    ELSE [i \in DOMAIN table |->
            IF table[i].submission_id = excluded.submission_id
            THEN PaidConflictUpdate(table[i], excluded, t)
            ELSE table[i]]

\* whether createPaidSubmission throws on these arguments: no submission
\* id, or an amount the DECIMAL(10, 2) column refuses, on which the INSERT
\* raises
createPaidThrows(submissionId, paymentData) ==
    \/ ~Truthy(submissionId)
    \/ /\ Truthy(Get(paymentData, "amount_gross"))
       /\ DecimalRaises(ParseFloat(Get(paymentData, "amount_gross")))
    \/ /\ Truthy(Get(paymentData, "amount_net"))
       /\ DecimalRaises(ParseFloat(Get(paymentData, "amount_net")))

\* a faulty write that leaves only the new row in the table; the claims
\* about paid rows staying must tell it from createPaidSubmission
createPaidReplacingTable(table, submissionId, formData, paymentData, t) ==
    IF createPaidThrows(submissionId, paymentData) THEN table
    ELSE <<PaidInsertRow(submissionId, formData, paymentData, t)>>

\* the submissions table after createPaidSubmission({submissionId,
\* formData, paymentData}) at time t; when the code throws it has written
\* nothing
createPaidSubmission(table, submissionId, formData, paymentData, t) ==
    IF createPaidThrows(submissionId, paymentData) THEN table
    ELSE PaidUpsert(table, PaidInsertRow(submissionId, formData, paymentData, t), t)

\* a faulty existence check that never finds a row; the claims about
\* duplicate notifications must tell it from submissionExists
NeverExists(table, submissionId) == FALSE

submissionExists(table, submissionId) ==
    Truthy(submissionId) /\ RowsOf(table, submissionId) # <<>>

\* the rows the SELECT of findBySubmissionId returns: none is the code's
\* null, otherwise the code returns the first
findBySubmissionId(table, submissionId) ==
    IF ~Truthy(submissionId) THEN <<>> ELSE RowsOf(table, submissionId)

(***************************************************************************)
(* Bounds and inputs                                                        *)
(***************************************************************************)
\* the clock runs from 0 to MaxTime hours
MaxTime == 3

\* handler invocations in one behaviour
MaxInvocations == 2

\* checkouts in one behaviour
MaxCheckouts == 1

\* writes to the pending store in one behaviour of the store on its own
MaxPuts == 2

\* the handler invocations that can be in flight together
Procs == {1, 2}

SubmissionIds == {"SSS-1", "SSS-2"}

MerchantId == "10000100"

Passphrase == "p 1"

\* process.env
GoodEnv ==
    [PAYFAST_MODE                 |-> " Sandbox",
     PAYFAST_SANDBOX_MERCHANT_ID  |-> MerchantId,
     PAYFAST_SANDBOX_MERCHANT_KEY |-> "key1",
     PAYFAST_SANDBOX_PASSPHRASE   |-> Passphrase]

BadEnv ==
    [PAYFAST_MODE                 |-> "test",
     PAYFAST_SANDBOX_MERCHANT_ID  |-> MerchantId,
     PAYFAST_SANDBOX_MERCHANT_KEY |-> "key1",
     PAYFAST_SANDBOX_PASSPHRASE   |-> Passphrase]

Envs == {GoodEnv, BadEnv}

\* process.env as a deployment can leave it: the mode or one variable of the
\* active mode not set, live mode with only the sandbox variables set, a
\* blank mode, and a passphrase set to the empty string
ConfigEnvs ==
    Envs
    \cup
    { [k \in DOMAIN GoodEnv \ {v} |-> GoodEnv[k]] :
          v \in {"PAYFAST_MODE", "PAYFAST_SANDBOX_MERCHANT_ID",
                 "PAYFAST_SANDBOX_MERCHANT_KEY", "PAYFAST_SANDBOX_PASSPHRASE"} }
    \cup
    { [GoodEnv EXCEPT !.PAYFAST_MODE = "LIVE"],
      [GoodEnv EXCEPT !.PAYFAST_MODE = "  "],
      [GoodEnv EXCEPT !.PAYFAST_SANDBOX_PASSPHRASE = ""] }

\* the form a customer sends with the checkout request of a submission:
\* one form with a customer address, one without
CustomerForm(submissionId) ==
    IF submissionId = "SSS-1"
    THEN [businessName   |-> "Acme Ltd",
          ownerFirstName |-> "Jo",
          ownerLastName  |-> "Doe",
          businessEmail  |-> "jo@acme.co",
          services       |-> "web,seo",
          submissionId   |-> submissionId]
    ELSE [businessName   |-> "Bolt",
          notes          |-> "call me",
          submissionId   |-> submissionId]

\* the checkout request of a submission, in the format of subscribe.html
CheckoutRequest(submissionId) ==
    [submissionId   |-> submissionId,
     formData       |-> CustomerForm(submissionId),
     timestamp      |-> "t0",
     recaptchaToken |-> "tok"]

\* { ...fullFormData, submissionId, timestamp, metadata: requestData.metadata || {} }
pendingData(requestData, fullFormData, submissionId, timestamp) ==
    [k \in DOMAIN fullFormData \cup {"submissionId", "timestamp", "metadata"} |->
        CASE k = "submissionId" -> submissionId
          [] k = "timestamp"    -> timestamp
          [] k = "metadata"     -> ObjectOrElse(requestData, "metadata", <<>>)
          [] OTHER              -> fullFormData[k]]

\* the form data the checkout stores for a submission: what the handler
\* makes of the submission's request
FormData(submissionId) ==
    LET requestData == CheckoutRequest(submissionId)
    IN  pendingData(requestData, requestData.formData, submissionId,
                    requestData.timestamp)

\* the fields of a notification, in the order PayFast posts them
ItnFields(status, gross, customStr1, merchantId) ==
    << <<"pf_payment_id", "1415">>,
       <<"payment_status", status>>,
       <<"amount_gross", gross>>,
       <<"amount_net", "">>,
       <<"custom_str1", customStr1>>,
       <<"custom_str2", "Acme Ltd">>,
       <<"name_first", "Jo">>,
       <<"email_address", "jo@acme.co">>,
       <<"merchant_id", merchantId>>,
       <<"token", "tok-1">> >>

\* the signature PayFast puts on the fields it posts: the digest of the
\* non-empty fields as key=value pairs in posting order, then the passphrase
ProviderSignature(fields, passphrase) ==
    LET sent == SelectSeq(fields, LAMBDA f : f[2] # "")
        pair(f) == f[1] \o "=" \o PayFastEncode(f[2])
        text == JoinAmp([i \in DOMAIN sent |-> pair(sent[i])])
    IN  MD5(text \o "&passphrase=" \o PayFastEncode(passphrase))

Signed(fields) ==
    [httpMethod |-> "POST",
     body       |-> fields \o << <<"signature", ProviderSignature(fields, Passphrase)>> >>]

WithoutField(fields, key) == SelectSeq(fields, LAMBDA f : f[1] # key)

\* the requests the ITN endpoint receives
ItnEvents ==
    { Signed(ItnFields("COMPLETE", "0.00", id, MerchantId)) : id \in SubmissionIds }
    \cup
    { Signed(ItnFields("COMPLETE", "0.00", "", MerchantId)),
      Signed(ItnFields("PENDING", "0.00", "SSS-1", MerchantId)),
      Signed(ItnFields("FAILED", "0.00", "SSS-1", MerchantId)),
      Signed(WithoutField(ItnFields("COMPLETE", "0.00", "SSS-1", MerchantId), "payment_status")),
      Signed(WithoutField(ItnFields("COMPLETE", "0.00", "SSS-1", MerchantId), "custom_str1")),
      Signed(ItnFields("COMPLETE", "0.00", "SSS-1", "10009999")),
      Signed(ItnFields("COMPLETE", "abc", "SSS-1", MerchantId)),
      [httpMethod |-> "POST",
       body |-> ItnFields("COMPLETE", "0.00", "SSS-1", MerchantId)
                \o << <<"signature", "0badc0de">> >>],
      [httpMethod |-> "GET", body |-> <<>>],
      [Signed(ItnFields("COMPLETE", "0.00", "SSS-1", MerchantId))
           EXCEPT !.httpMethod = "GET"] }

\* the requests the manual test endpoint receives
TestEvents ==
    { [httpMethod |-> "POST", body |-> [submissionId |-> id]] : id \in SubmissionIds }
    \cup
    { [httpMethod |-> "POST", body |-> <<>>],
      [httpMethod |-> "GET", body |-> <<>>],
      [httpMethod |-> "PUT", body |-> <<>>] }

(***************************************************************************)
(* State                                                                    *)
(***************************************************************************)
VARIABLES
    env,            \* process.env of the functions
    now,            \* the database clock, in hours
    pending,        \* the rows of pending_form_data
    paid,           \* the rows of submissions
    inv,            \* per invocation slot: where the handler is, its locals,
                    \* its response and the external calls it has made
    ownerEmails,    \* owner notifications delivered, per submission id
    customerEmails, \* welcome emails delivered, per submission id
    validated,      \* ids of the COMPLETE notifications that passed validation
    started,        \* invocations begun
    puts,           \* writes to the pending store by the checkout side
    lastPut,        \* the arguments of the latest storePendingFormData call
                    \* made directly and the rows the id had then
    lastGet,        \* the arguments and the result of the latest
                    \* getPendingFormData call made directly
    lastCreate,     \* the arguments of the latest createPaidSubmission
                    \* call made directly and the rows the id had then
    sigChecks,      \* the last two calls of validatePayFastSignature made
                    \* directly: the arguments and the result
    dbClient,       \* the database-client module in one container: its retry
                    \* queue, its flag, the appendToDatabase call and the
                    \* processRetryQueue run in flight, and the remote API
    lastCleanup,    \* the time of the latest cleanupExpiredPendingData call
                    \* that deleted something and the rows it deleted
    lastCall        \* the latest call of a function of the database module
                    \* made directly: the function, the submission id, what
                    \* it returned, whether it sent a query, and the number
                    \* of such calls so far

vars == <<env, now, pending, paid, inv, ownerEmails, customerEmails,
          validated, started, puts, lastPut, lastGet, lastCreate, sigChecks,
          dbClient, lastCleanup, lastCall>>

\* no function of the database module has been called directly
NoCall == [op |-> "", submissionId |-> "", returned |-> "", queried |-> FALSE, calls |-> 0]

\* no appendToDatabase or updateRecord call in flight; loop is how
\* makeRequestWithRetry ended for the call, outcome how the call itself
\* did and value what it returned ("" when it threw or has not ended)
CallIdle ==
    [op |-> "", pc |-> "idle", data |-> "", queueOnFailure |-> TRUE, attempt |-> 0,
     delay |-> 0, results |-> <<>>, slept |-> <<>>, refused |-> FALSE, loop |-> "",
     outcome |-> "", value |-> ""]

\* no processRetryQueue run in flight
RunIdle == [pc |-> "idle", index |-> 0, successfulIds |-> <<>>]

\* the module as it is loaded: an empty queue, the flag down; the remote
\* API answers as it likes ("any") until it settles ("online"); queued
\* counts the queueForRetry calls, passes the processing passes in flight
ClientLoaded ==
    [api |-> "any", retryQueue |-> <<>>, isProcessingQueue |-> FALSE,
     appends |-> 0, call |-> CallIdle, run |-> RunIdle, delivered |-> {},
     queued |-> 0, passes |-> 0]

NoResponse == [statusCode |-> 0, message |-> "", error |-> "", action |-> ""]

Response(code, message, error, action) ==
    [statusCode |-> code, message |-> message, error |-> error, action |-> action]

\* an invocation slot before a request arrives
Fresh ==
    [handler             |-> "",
     pc                  |-> "idle",
     itnData             |-> <<>>,
     submissionId        |-> "",
     validationResult    |-> [valid |-> FALSE, error |-> ""],
     fullFormData        |-> <<>>,
     databaseSaveSuccess |-> FALSE,
     response            |-> NoResponse,
     calls               |-> <<>>,
     event               |-> <<>>,
     call                |-> CallIdle]

Init ==
    /\ env \in Envs
    /\ now = 0
    /\ pending = <<>>
    /\ paid = <<>>
    /\ inv = [h \in Procs |-> Fresh]
    /\ ownerEmails = [id \in SubmissionIds \cup {""} |-> 0]
    /\ customerEmails = [id \in SubmissionIds \cup {""} |-> 0]
    /\ validated = {}
    /\ started = 0
    /\ puts = 0
    /\ lastPut = [submissionId |-> "", formData |-> <<>>, found |-> <<>>]
    /\ lastGet = [submissionId |-> "", ignoreExpiry |-> FALSE, rows |-> <<>>]
    /\ lastCreate = [submissionId |-> "", formData |-> <<>>, paymentData |-> <<>>,
                     found |-> <<>>]
    /\ sigChecks = <<>>
    /\ dbClient = ClientLoaded
    /\ lastCleanup = [at |-> 0, deleted |-> <<>>]
    /\ lastCall = NoCall

\* no invocation has returned a response that is still to be delivered
Quiet == \A h \in Procs : inv[h].pc # "done"

(***************************************************************************)
(* The environment: the clock, the checkout side, the expiry sweep          *)
(***************************************************************************)
Tick ==
    /\ now < MaxTime
    /\ now' = now + 1
    /\ UNCHANGED <<env, lastCall, lastCleanup, dbClient, sigChecks, lastCreate, lastGet, lastPut, pending, paid, inv, ownerEmails, customerEmails,
                   validated, started, puts>>

\* storePendingFormData(submissionId, formData); the code throws before
\* any query when submissionId is empty
StorePending(submissionId, formData) ==
    /\ puts' = puts + 1
    /\ pending' = IF Truthy(submissionId)
                  THEN storePendingFormData(pending, submissionId, formData, now)
                  ELSE pending
    /\ UNCHANGED <<env, lastCall, lastCleanup, dbClient, sigChecks, lastCreate, lastGet, now, paid, inv, ownerEmails, customerEmails,
                   validated, started>>

\* the INSERT that the storePendingFormData call of a checkout sends is
\* carried out: one statement, which the database runs at once.  A call
\* that throws leaves the table as it is and is no step.
CheckoutStorePending(submissionId) ==
    /\ Quiet
    /\ puts < MaxCheckouts
    /\ StorePending(submissionId, FormData(submissionId))
    /\ UNCHANGED lastPut

\* cleanupExpiredPendingData()
CleanupExpired ==
    /\ pending' = cleanupExpiredPendingData(pending, now)
    /\ pending' # pending
    /\ lastCleanup' =
           [at      |-> now,
            deleted |-> SelectSeq(pending, LAMBDA row :
                            \A j \in DOMAIN pending' : pending'[j] # row)]
    /\ UNCHANGED <<env, lastCall, dbClient, sigChecks, lastCreate, lastGet, lastPut, now, paid, inv, ownerEmails, customerEmails,
                   validated, started, puts>>

(***************************************************************************)
(* The ITN handler (payfast-itn): one action per stretch of code between    *)
(* two awaited external calls.  `up` says whether the awaited call          *)
(* succeeds; when it is FALSE the call throws.                              *)
(***************************************************************************)
\* a request is served in the first slot that has no invocation
FreeSlot(h) ==
    /\ inv[h].pc = "idle"
    /\ \A g \in Procs : g < h => inv[g].pc # "idle"

\* the response of a returned invocation is delivered and the invocation
\* is over; this takes no time, so every other step waits for it (Quiet)
Respond(h) ==
    /\ inv[h].pc = "done"
    /\ inv' = [inv EXCEPT ![h] = Fresh]
    /\ UNCHANGED <<env, lastCall, lastCleanup, dbClient, sigChecks, lastCreate, lastGet, lastPut, now, pending, paid, ownerEmails, customerEmails,
                   validated, started, puts>>

\* the handler's external call `name` comes back, ok or thrown, and the
\* handler goes on at pc `next`
Goto(h, name, ok, next) ==
    inv' = [inv EXCEPT ![h].pc = next, ![h].calls = Append(@, <<name, ok>>)]

\* the handler's external call `name` comes back, ok or thrown, and the
\* handler returns resp
CallAndReturn(h, name, ok, resp) ==
    inv' = [inv EXCEPT ![h].pc = "done", ![h].response = resp,
                       ![h].calls = Append(@, <<name, ok>>)]

\* sendWelcomeEmail(subscriberData): whether the email is delivered; it
\* throws when there is no address or when the provider fails
sendWelcomeEmail(subscriberData, up) ==
    Truthy(Get(subscriberData, "email")) /\ up

\* a faulty status test that lets through every status but FAILED; the
\* claims about unfinished payments must tell it from IsCompleteStatus
IsNotFailedStatus(paymentStatus) == paymentStatus # "FAILED"

\* step 7: paymentStatus !== 'COMPLETE' is the handler's no-op case
IsCompleteStatus(paymentStatus) == paymentStatus = "COMPLETE"

\* the catch of the handler's outer try
CaughtResponse == Response(200, "ITN received with errors", "thrown", "")

\* a faulty fallback object without the notification's fields and without
\* the marker; the claims about the fallback must tell it from
\* fallbackFormData
fallbackWithoutNote(submissionId, itnData) ==
    [submissionId |-> submissionId]

\* the object the handler stores when no pending record is found
fallbackFormData(submissionId, itnData) ==
    [submissionId   |-> submissionId,
     businessName   |-> OrElse(Field(itnData, "custom_str2"), ""),
     ownerFirstName |-> OrElse(Field(itnData, "name_first"), ""),
     ownerLastName  |-> OrElse(Field(itnData, "name_last"), ""),
     businessEmail  |-> OrElse(Field(itnData, "email_address"), ""),
     _note          |-> "INCOMPLETE DATA - Original form data not found in pending table"]

\* a faulty start of the handler that loads the configuration and parses
\* the body before it looks at the method; the claims about requests that
\* are not POST must tell it from Gates
GatesMethodLast(event, e) ==
    LET payfastConfig == getPayFastCredentials(e)
        itnData       == parseUrlEncodedData(event.body)
        pre           == RequestPrecheck(itnData, payfastConfig.merchantId)
        begun         == [Fresh EXCEPT !.handler = "itn"]
        parsed        == [begun EXCEPT !.itnData = itnData]
        end(at, resp) == [at EXCEPT !.pc = "done", !.response = resp]
    IN  IF ~payfastConfig.ok
        THEN end(begun, Response(200, "", "Server configuration error", ""))
        ELSE IF event.httpMethod # "POST"
        THEN end(parsed, Response(405, "", "Method not allowed", ""))
        ELSE IF ~validatePayFastSignature(itnData, payfastConfig.passphrase)
        THEN end(parsed, Response(200, "", "Invalid signature", ""))
        ELSE IF pre # ""
        THEN end([parsed EXCEPT !.validationResult = [valid |-> FALSE, error |-> pre]],
                 Response(200, "", pre, ""))
        ELSE [parsed EXCEPT !.pc = "confirmWithPayFast"]

\* steps 1 to 6 of the handler on `event` under environment e, up to the
\* confirmation request: the invocation as it stands at its first await
\* or at its return
Gates(event, e) ==
    LET payfastConfig == getPayFastCredentials(e)
        itnData       == parseUrlEncodedData(event.body)
        pre           == RequestPrecheck(itnData, payfastConfig.merchantId)
        begun         == [Fresh EXCEPT !.handler = "itn"]
        parsed        == [begun EXCEPT !.itnData = itnData]
        end(at, resp) == [at EXCEPT !.pc = "done", !.response = resp]
    IN  IF event.httpMethod # "POST"
        THEN end(begun, Response(405, "", "Method not allowed", ""))
        ELSE IF ~payfastConfig.ok
        THEN end(begun, Response(200, "", "Server configuration error", ""))
        ELSE IF ~validatePayFastSignature(itnData, payfastConfig.passphrase)
        THEN end(parsed, Response(200, "", "Invalid signature", ""))
        ELSE IF pre # ""
        THEN end([parsed EXCEPT !.validationResult = [valid |-> FALSE, error |-> pre]],
                 Response(200, "", pre, ""))
        ELSE [parsed EXCEPT !.pc = "confirmWithPayFast"]

\* Gates on the model's requests and environments, worked out once
GatesOf == [event \in ItnEvents, e \in ConfigEnvs |-> Gates(event, e)]

\* getPayFastCredentials on the model's environments, worked out once
CredentialsOf == [e \in ConfigEnvs |-> getPayFastCredentials(e)]

\* a request arrives: steps 1 to 6, up to the confirmation request
Receive(h, event) ==
    /\ Quiet
    /\ FreeSlot(h)
    /\ started < MaxInvocations
    /\ started' = started + 1
    /\ inv' = [inv EXCEPT ![h] = GatesOf[event, env]]
    /\ UNCHANGED <<env, lastCall, lastCleanup, dbClient, sigChecks, lastCreate, lastGet, lastPut, now, pending, paid, ownerEmails, customerEmails,
                   validated, puts>>

\* a faulty end of the validation without the test of step 8: a notification
\* without a submission id goes on to the stores; the claims about a missing
\* submission id must tell it from ConfirmReturns
ConfirmReturnsAnyId(h, reply) ==
    /\ Quiet
    /\ inv[h].handler = "itn"
    /\ inv[h].pc = "confirmWithPayFast"
    /\ LET itnData          == inv[h].itnData
           validationResult == validatePayFastRequest(
                                   itnData, CredentialsOf[env].merchantId, reply)
           paymentStatus    == Field(itnData, "payment_status")
           submissionId     == OrElse(Field(itnData, "custom_str1"), "")
           called           == [inv[h] EXCEPT
                                  !.validationResult = validationResult,
                                  !.calls = Append(@, <<"confirmWithPayFast", ~reply.failed>>)]
           end(resp)        == [called EXCEPT !.pc = "done", !.response = resp]
       IN  IF ~validationResult.valid
           THEN /\ inv' = [inv EXCEPT ![h] =
                              end(Response(200, "", validationResult.error, ""))]
                /\ UNCHANGED validated
           ELSE IF ~IsCompleteStatus(paymentStatus)
           THEN /\ inv' = [inv EXCEPT ![h] =
                              end(Response(200, "ITN received", "", "no_action_required"))]
                /\ UNCHANGED validated
           ELSE /\ inv' = [inv EXCEPT ![h] =
                              [called EXCEPT !.pc = "submissionExists",
                                             !.submissionId = submissionId]]
                /\ validated' = validated \cup {submissionId}
    /\ UNCHANGED <<env, lastCall, lastCleanup, dbClient, sigChecks, lastCreate, lastGet, lastPut, now, pending, paid, ownerEmails, customerEmails,
                   started, puts>>

\* the confirmation endpoint replies: the rest of step 6, steps 7 and 8
ConfirmReturns(h, reply) ==
    /\ Quiet
    /\ inv[h].handler = "itn"
    /\ inv[h].pc = "confirmWithPayFast"
    /\ LET itnData          == inv[h].itnData
           validationResult == validatePayFastRequest(
                                   itnData, CredentialsOf[env].merchantId, reply)
           paymentStatus    == Field(itnData, "payment_status")
           submissionId     == OrElse(Field(itnData, "custom_str1"), "")
           called           == [inv[h] EXCEPT
                                  !.validationResult = validationResult,
                                  !.calls = Append(@, <<"confirmWithPayFast", ~reply.failed>>)]
           end(resp)        == [called EXCEPT !.pc = "done", !.response = resp]
       IN  IF ~validationResult.valid
           THEN /\ inv' = [inv EXCEPT ![h] =
                              end(Response(200, "", validationResult.error, ""))]
                /\ UNCHANGED validated
           ELSE IF ~IsCompleteStatus(paymentStatus)
           THEN /\ inv' = [inv EXCEPT ![h] =
                              end(Response(200, "ITN received", "", "no_action_required"))]
                /\ UNCHANGED validated
           ELSE IF ~Truthy(submissionId)
           THEN /\ inv' = [inv EXCEPT ![h] =
                              end(Response(200, "", "Missing submission ID", ""))]
                /\ UNCHANGED validated
           ELSE /\ inv' = [inv EXCEPT ![h] =
                              [called EXCEPT !.pc = "submissionExists",
                                             !.submissionId = submissionId]]
                /\ validated' = validated \cup {submissionId}
    /\ UNCHANGED <<env, lastCall, lastCleanup, dbClient, sigChecks, lastCreate, lastGet, lastPut, now, pending, paid, ownerEmails, customerEmails,
                   started, puts>>

\* step 9: the idempotency check
SubmissionExists(h, up) ==
    /\ Quiet
    /\ inv[h].handler = "itn"
    /\ inv[h].pc = "submissionExists"
    /\ IF ~up
       THEN CallAndReturn(h, "submissionExists", FALSE, CaughtResponse)
       ELSE IF submissionExists(paid, inv[h].submissionId)
       THEN CallAndReturn(h, "submissionExists", TRUE,
                Response(200, "Duplicate ITN - already processed", "", ""))
       ELSE Goto(h, "submissionExists", TRUE, "initializeSchema")
    /\ UNCHANGED <<env, lastCall, lastCleanup, dbClient, sigChecks, lastCreate, lastGet, lastPut, now, pending, paid, ownerEmails, customerEmails,
                   validated, started, puts>>

\* step 10: CREATE TABLE IF NOT EXISTS changes no row
InitializeSchema(h, up) ==
    /\ Quiet
    /\ inv[h].handler = "itn"
    /\ inv[h].pc = "initializeSchema"
    /\ IF ~up
       THEN CallAndReturn(h, "initializeSchema", FALSE, CaughtResponse)
       ELSE Goto(h, "initializeSchema", TRUE, "getPendingFormData")
    /\ UNCHANGED <<env, lastCall, lastCleanup, dbClient, sigChecks, lastCreate, lastGet, lastPut, now, pending, paid, ownerEmails, customerEmails,
                   validated, started, puts>>

\* a faulty step 11 that goes from a found pending record straight to the
\* cleanup; the claims about the order of the pipeline must tell it from
\* GetPendingFormData
GetPendingThenCleanup(h, up) ==
    /\ Quiet
    /\ inv[h].handler = "itn"
    /\ inv[h].pc = "getPendingFormData"
    /\ LET rows == getPendingFormData(pending, inv[h].submissionId, now, FALSE)
       IN  IF ~up
           THEN CallAndReturn(h, "getPendingFormData", FALSE, CaughtResponse)
           ELSE IF rows = <<>>
           THEN Goto(h, "getPendingFormData", TRUE, "createFallback")
           ELSE inv' = [inv EXCEPT ![h].pc = "deletePendingFormData",
                                   ![h].fullFormData = rows[1].form_data,
                                   ![h].calls = Append(@, <<"getPendingFormData", TRUE>>)]
    /\ UNCHANGED <<env, lastCall, lastCleanup, dbClient, sigChecks, lastCreate, lastGet, lastPut, now, pending, paid, ownerEmails, customerEmails,
                   validated, started, puts>>

\* a faulty step 11 that takes a lookup that threw for a record that is
\* not there and goes on to the fallback; the claims about store calls that
\* throw must tell it from GetPendingFormData
GetPendingOrFallback(h, up) ==
    /\ Quiet
    /\ inv[h].handler = "itn"
    /\ inv[h].pc = "getPendingFormData"
    /\ LET rows == getPendingFormData(pending, inv[h].submissionId, now, FALSE)
       IN  IF ~up \/ rows = <<>>
           THEN Goto(h, "getPendingFormData", up, "createFallback")
           ELSE inv' = [inv EXCEPT ![h].pc = "createPaidSubmission",
                                   ![h].fullFormData = rows[1].form_data,
                                   ![h].calls = Append(@, <<"getPendingFormData", TRUE>>)]
    /\ UNCHANGED <<env, lastCall, lastCleanup, dbClient, sigChecks, lastCreate, lastGet, lastPut, now, pending, paid, ownerEmails, customerEmails,
                   validated, started, puts>>

\* step 11: the pending lookup
GetPendingFormData(h, up) ==
    /\ Quiet
    /\ inv[h].handler = "itn"
    /\ inv[h].pc = "getPendingFormData"
    /\ LET rows == getPendingFormData(pending, inv[h].submissionId, now, FALSE)
       IN  IF ~up
           THEN CallAndReturn(h, "getPendingFormData", FALSE, CaughtResponse)
           ELSE IF rows = <<>>
           THEN Goto(h, "getPendingFormData", TRUE, "createFallback")
           ELSE inv' = [inv EXCEPT ![h].pc = "createPaidSubmission",
                                   ![h].fullFormData = rows[1].form_data,
                                   ![h].calls = Append(@, <<"getPendingFormData", TRUE>>)]
    /\ UNCHANGED <<env, lastCall, lastCleanup, dbClient, sigChecks, lastCreate, lastGet, lastPut, now, pending, paid, ownerEmails, customerEmails,
                   validated, started, puts>>

\* step 11, no pending record: the paid submission from the notification
CreateFallback(h, up) ==
    /\ Quiet
    /\ inv[h].handler = "itn"
    /\ inv[h].pc = "createFallback"
    /\ IF ~up \/ createPaidThrows(inv[h].submissionId, AsMap(inv[h].itnData))
       THEN /\ CallAndReturn(h, "createPaidSubmission", FALSE, CaughtResponse)
            /\ UNCHANGED paid
       ELSE /\ paid' = createPaidSubmission(paid, inv[h].submissionId,
                           fallbackFormData(inv[h].submissionId, inv[h].itnData),
                           AsMap(inv[h].itnData), now)
            /\ CallAndReturn(h, "createPaidSubmission", TRUE,
                   Response(200, "ITN processed with fallback data", "", ""))
    /\ UNCHANGED <<env, lastCall, lastCleanup, dbClient, sigChecks, lastCreate, lastGet, lastPut, now, pending, ownerEmails, customerEmails,
                   validated, started, puts>>

\* step 12: the paid submission from the pending record
CreatePaid(h, up) ==
    /\ Quiet
    /\ inv[h].handler = "itn"
    /\ inv[h].pc = "createPaidSubmission"
    /\ LET ok == up /\ ~createPaidThrows(inv[h].submissionId, AsMap(inv[h].itnData))
       IN  /\ paid' = IF ok
                      THEN createPaidSubmission(paid, inv[h].submissionId,
                               inv[h].fullFormData, AsMap(inv[h].itnData), now)
                      ELSE paid
           /\ inv' = [inv EXCEPT ![h].pc = "sendFullFormNotificationEmail",
                                 ![h].databaseSaveSuccess = ok,
                                 ![h].calls = Append(@, <<"createPaidSubmission", ok>>)]
    /\ UNCHANGED <<env, lastCall, lastCleanup, dbClient, sigChecks, lastCreate, lastGet, lastPut, now, pending, ownerEmails, customerEmails,
                   validated, started, puts>>

\* a faulty step 13 whose call is not wrapped in its own try: a failed owner
\* notification ends the invocation in the outer catch; the claims about
\* best-effort notifications must tell it from SendOwnerEmail
SendOwnerEmailOrAbort(h, up) ==
    /\ Quiet
    /\ inv[h].handler = "itn"
    /\ inv[h].pc = "sendFullFormNotificationEmail"
    /\ ownerEmails' = IF up
                      THEN [ownerEmails EXCEPT ![inv[h].submissionId] = @ + 1]
                      ELSE ownerEmails
    /\ IF up
       THEN Goto(h, "sendFullFormNotificationEmail", TRUE,
                 IF Truthy(Get(inv[h].fullFormData, "businessEmail"))
                 THEN "sendWelcomeEmail"
                 ELSE "deletePendingFormData")
       ELSE CallAndReturn(h, "sendFullFormNotificationEmail", FALSE, CaughtResponse)
    /\ UNCHANGED <<env, lastCall, lastCleanup, dbClient, sigChecks, lastCreate, lastGet, lastPut, now, pending, paid, customerEmails, validated,
                   started, puts>>

\* step 13: the owner notification
SendOwnerEmail(h, up) ==
    /\ Quiet
    /\ inv[h].handler = "itn"
    /\ inv[h].pc = "sendFullFormNotificationEmail"
    /\ ownerEmails' = IF up
                      THEN [ownerEmails EXCEPT ![inv[h].submissionId] = @ + 1]
                      ELSE ownerEmails
    /\ inv' = [inv EXCEPT
                 ![h].pc = IF Truthy(Get(inv[h].fullFormData, "businessEmail"))
                           THEN "sendWelcomeEmail"
                           ELSE "deletePendingFormData",
                 ![h].calls = Append(@, <<"sendFullFormNotificationEmail", up>>)]
    /\ UNCHANGED <<env, lastCall, lastCleanup, dbClient, sigChecks, lastCreate, lastGet, lastPut, now, pending, paid, customerEmails, validated,
                   started, puts>>

\* step 14: the welcome email
SendWelcomeEmail(h, up) ==
    /\ Quiet
    /\ inv[h].handler = "itn"
    /\ inv[h].pc = "sendWelcomeEmail"
    /\ LET fullFormData == inv[h].fullFormData
           subscriberData ==
               [email        |-> Get(fullFormData, "businessEmail"),
                firstName    |-> OrElse(Get(fullFormData, "ownerFirstName"), ""),
                lastName     |-> OrElse(Get(fullFormData, "ownerLastName"), ""),
                businessName |-> OrElse(Get(fullFormData, "businessName"), ""),
                submissionId |-> inv[h].submissionId]
       IN  customerEmails' =
               IF sendWelcomeEmail(subscriberData, up)
               THEN [customerEmails EXCEPT ![inv[h].submissionId] = @ + 1]
               ELSE customerEmails
    /\ inv' = [inv EXCEPT ![h].pc = "deletePendingFormData",
                          ![h].calls = Append(@, <<"sendWelcomeEmail", up>>)]
    /\ UNCHANGED <<env, lastCall, lastCleanup, dbClient, sigChecks, lastCreate, lastGet, lastPut, now, pending, paid, ownerEmails, validated,
                   started, puts>>

\* steps 15 and 16: the cleanup and the acknowledgment
DeletePending(h, up) ==
    /\ Quiet
    /\ inv[h].handler = "itn"
    /\ inv[h].pc = "deletePendingFormData"
    /\ pending' = IF up
                  THEN deletePendingFormData(pending, inv[h].submissionId)
                  ELSE pending
    /\ CallAndReturn(h, "deletePendingFormData", up,
           Response(200, "ITN processed successfully", "", ""))
    /\ UNCHANGED <<env, lastCall, lastCleanup, dbClient, sigChecks, lastCreate, lastGet, lastPut, now, paid, ownerEmails, customerEmails, validated,
                   started, puts>>

ItnStep(h) ==
    \/ \E event \in ItnEvents : Receive(h, event)
    \/ \E reply \in ConfirmReplies : ConfirmReturns(h, reply)
    \/ \E up \in BOOLEAN : SubmissionExists(h, up)
    \/ \E up \in BOOLEAN : InitializeSchema(h, up)
    \/ \E up \in BOOLEAN : GetPendingFormData(h, up)
    \/ \E up \in BOOLEAN : CreateFallback(h, up)
    \/ \E up \in BOOLEAN : CreatePaid(h, up)
    \/ \E up \in BOOLEAN : SendOwnerEmail(h, up)
    \/ \E up \in BOOLEAN : SendWelcomeEmail(h, up)
    \/ \E up \in BOOLEAN : DeletePending(h, up)

\* the ITN endpoint and the checkout
Next ==
    \/ \E h \in Procs : Respond(h)
    \/ \E id \in SubmissionIds : CheckoutStorePending(id)
    \/ \E h \in Procs : ItnStep(h)

Spec == Init /\ [][Next]_vars

\* the ITN endpoint under every configuration
InitConfig ==
    /\ env \in ConfigEnvs
    /\ now = 0
    /\ pending = <<>>
    /\ paid = <<>>
    /\ inv = [h \in Procs |-> Fresh]
    /\ ownerEmails = [id \in SubmissionIds \cup {""} |-> 0]
    /\ customerEmails = [id \in SubmissionIds \cup {""} |-> 0]
    /\ validated = {}
    /\ started = 0
    /\ puts = 0
    /\ lastPut = [submissionId |-> "", formData |-> <<>>, found |-> <<>>]
    /\ lastGet = [submissionId |-> "", ignoreExpiry |-> FALSE, rows |-> <<>>]
    /\ lastCreate = [submissionId |-> "", formData |-> <<>>, paymentData |-> <<>>,
                     found |-> <<>>]
    /\ sigChecks = <<>>
    /\ dbClient = ClientLoaded
    /\ lastCleanup = [at |-> 0, deleted |-> <<>>]
    /\ lastCall = NoCall

SpecConfig == InitConfig /\ [][Next]_vars

\* the ITN endpoint after a checkout, while the clock runs and the expiry
\* sweep may come: the pending record of every submission was stored at
\* hour 0
InitExpiry ==
    /\ env = GoodEnv
    /\ now = 0
    /\ pending = storePendingFormData(
                     storePendingFormData(<<>>, "SSS-1", FormData("SSS-1"), 0),
                     "SSS-2", FormData("SSS-2"), 0)
    /\ paid = <<>>
    /\ inv = [h \in Procs |-> Fresh]
    /\ ownerEmails = [id \in SubmissionIds \cup {""} |-> 0]
    /\ customerEmails = [id \in SubmissionIds \cup {""} |-> 0]
    /\ validated = {}
    /\ started = 0
    /\ puts = 0
    /\ lastPut = [submissionId |-> "", formData |-> <<>>, found |-> <<>>]
    /\ lastGet = [submissionId |-> "", ignoreExpiry |-> FALSE, rows |-> <<>>]
    /\ lastCreate = [submissionId |-> "", formData |-> <<>>, paymentData |-> <<>>,
                     found |-> <<>>]
    /\ sigChecks = <<>>
    /\ dbClient = ClientLoaded
    /\ lastCleanup = [at |-> 0, deleted |-> <<>>]
    /\ lastCall = NoCall

NextExpiry ==
    \/ \E h \in Procs : Respond(h)
    \/ Tick
    \/ CleanupExpired
    \/ \E h \in Procs : ItnStep(h)

SpecExpiry == InitExpiry /\ [][NextExpiry]_vars

(***************************************************************************)
(* The manual test endpoint (test-itn)                                      *)
(***************************************************************************)
TestCaught == Response(500, "", "thrown", "")

\* the payment data the test endpoint makes up
mockPaymentData(submissionId, fullFormData, t) ==
    << <<"pf_payment_id", "TEST-" \o ToString(t)>>,
       <<"payment_status", "COMPLETE">>,
       <<"amount_gross", "0.00">>,
       <<"amount_fee", "0.00">>,
       <<"amount_net", "0.00">>,
       <<"name_first", OrElse(Get(fullFormData, "ownerFirstName"), "Test")>>,
       <<"name_last", OrElse(Get(fullFormData, "ownerLastName"), "User")>>,
       <<"email_address", OrElse(Get(fullFormData, "businessEmail"), "test@test.com")>>,
       <<"m_payment_id", submissionId>>,
       <<"item_name", "Landing Page Subscription - Test">>,
       <<"billing_date", ToString(t)>> >>

\* a request arrives at the test endpoint
TestReceive(h, event) ==
    /\ Quiet
    /\ FreeSlot(h)
    /\ started < MaxInvocations
    /\ started' = started + 1
    /\ LET begun        == [Fresh EXCEPT !.handler = "test-itn"]
           submissionId == Get(event.body, "submissionId")
       IN  inv' = [inv EXCEPT ![h] =
               IF event.httpMethod = "GET"
               THEN [begun EXCEPT !.pc = "listPending"]
               ELSE IF event.httpMethod # "POST"
               THEN [begun EXCEPT !.pc = "done",
                                  !.response = Response(200, "Test ITN Endpoint", "", "")]
               ELSE IF ~Truthy(submissionId)
               THEN [begun EXCEPT !.pc = "done",
                                  !.response = Response(400, "", "submissionId is required", "")]
               ELSE [begun EXCEPT !.pc = "initializeSchema",
                                  !.submissionId = submissionId]]
    /\ UNCHANGED <<env, lastCall, lastCleanup, dbClient, sigChecks, lastCreate, lastGet, lastPut, now, pending, paid, ownerEmails, customerEmails,
                   validated, puts>>

\* GET: the query that lists pending_form_data comes back; getPool or the
\* query may throw, which the handler catches
TestListPending(h, up) ==
    /\ Quiet
    /\ inv[h].handler = "test-itn"
    /\ inv[h].pc = "listPending"
    /\ IF up THEN Goto(h, "listPending", up, "listSubmissions")
       ELSE CallAndReturn(h, "listPending", up, TestCaught)
    /\ UNCHANGED <<env, lastCall, lastCleanup, dbClient, sigChecks, lastCreate, lastGet, lastPut, now, pending, paid, ownerEmails, customerEmails,
                   validated, started, puts>>

\* GET: the query that lists submissions comes back
TestListSubmissions(h, up) ==
    /\ Quiet
    /\ inv[h].handler = "test-itn"
    /\ inv[h].pc = "listSubmissions"
    /\ IF up THEN Goto(h, "listSubmissions", up, "poolEnd")
       ELSE CallAndReturn(h, "listSubmissions", up, TestCaught)
    /\ UNCHANGED <<env, lastCall, lastCleanup, dbClient, sigChecks, lastCreate, lastGet, lastPut, now, pending, paid, ownerEmails, customerEmails,
                   validated, started, puts>>

\* GET: pool.end() comes back and the handler answers
TestPoolEnd(h, up) ==
    /\ Quiet
    /\ inv[h].handler = "test-itn"
    /\ inv[h].pc = "poolEnd"
    /\ CallAndReturn(h, "poolEnd", up,
           IF up THEN Response(200, "Database Status", "", "") ELSE TestCaught)
    /\ UNCHANGED <<env, lastCall, lastCleanup, dbClient, sigChecks, lastCreate, lastGet, lastPut, now, pending, paid, ownerEmails, customerEmails,
                   validated, started, puts>>

TestInitializeSchema(h, up) ==
    /\ Quiet
    /\ inv[h].handler = "test-itn"
    /\ inv[h].pc = "initializeSchema"
    /\ IF ~up
       THEN CallAndReturn(h, "initializeSchema", FALSE, TestCaught)
       ELSE Goto(h, "initializeSchema", TRUE, "submissionExists")
    /\ UNCHANGED <<env, lastCall, lastCleanup, dbClient, sigChecks, lastCreate, lastGet, lastPut, now, pending, paid, ownerEmails, customerEmails,
                   validated, started, puts>>

TestSubmissionExists(h, up) ==
    /\ Quiet
    /\ inv[h].handler = "test-itn"
    /\ inv[h].pc = "submissionExists"
    /\ IF ~up
       THEN CallAndReturn(h, "submissionExists", FALSE, TestCaught)
       ELSE IF submissionExists(paid, inv[h].submissionId)
       THEN CallAndReturn(h, "submissionExists", TRUE,
                Response(200, "Submission already exists in submissions table",
                         "", "none"))
       ELSE Goto(h, "submissionExists", TRUE, "getPendingFormData")
    /\ UNCHANGED <<env, lastCall, lastCleanup, dbClient, sigChecks, lastCreate, lastGet, lastPut, now, pending, paid, ownerEmails, customerEmails,
                   validated, started, puts>>

\* the pending lookup, then the made-up payment data
TestGetPendingFormData(h, up) ==
    /\ Quiet
    /\ inv[h].handler = "test-itn"
    /\ inv[h].pc = "getPendingFormData"
    /\ LET rows == getPendingFormData(pending, inv[h].submissionId, now, FALSE)
       IN  IF ~up
           THEN CallAndReturn(h, "getPendingFormData", FALSE, TestCaught)
           ELSE IF rows = <<>>
           THEN CallAndReturn(h, "getPendingFormData", TRUE,
                    Response(404, "", "No pending form data found", ""))
           ELSE inv' = [inv EXCEPT
                          ![h].pc = "createPaidSubmission",
                          ![h].fullFormData = rows[1].form_data,
                          ![h].itnData = mockPaymentData(inv[h].submissionId,
                                             rows[1].form_data, now),
                          ![h].calls = Append(@, <<"getPendingFormData", TRUE>>)]
    /\ UNCHANGED <<env, lastCall, lastCleanup, dbClient, sigChecks, lastCreate, lastGet, lastPut, now, pending, paid, ownerEmails, customerEmails,
                   validated, started, puts>>

\* step 1 of the test endpoint
TestCreatePaid(h, up) ==
    /\ Quiet
    /\ inv[h].handler = "test-itn"
    /\ inv[h].pc = "createPaidSubmission"
    /\ LET ok == up /\ ~createPaidThrows(inv[h].submissionId, AsMap(inv[h].itnData))
       IN  /\ paid' = IF ok
                      THEN createPaidSubmission(paid, inv[h].submissionId,
                               inv[h].fullFormData, AsMap(inv[h].itnData), now)
                      ELSE paid
           /\ inv' = [inv EXCEPT ![h].pc = "sendFullFormNotificationEmail",
                                 ![h].databaseSaveSuccess = ok,
                                 ![h].calls = Append(@, <<"createPaidSubmission", ok>>)]
    /\ UNCHANGED <<env, lastCall, lastCleanup, dbClient, sigChecks, lastCreate, lastGet, lastPut, now, pending, ownerEmails, customerEmails,
                   validated, started, puts>>

\* step 2 of the test endpoint
TestSendOwnerEmail(h, up) ==
    /\ Quiet
    /\ inv[h].handler = "test-itn"
    /\ inv[h].pc = "sendFullFormNotificationEmail"
    /\ ownerEmails' = IF up
                      THEN [ownerEmails EXCEPT ![inv[h].submissionId] = @ + 1]
                      ELSE ownerEmails
    /\ Goto(h, "sendFullFormNotificationEmail", up, "sendWelcomeEmail")
    /\ UNCHANGED <<env, lastCall, lastCleanup, dbClient, sigChecks, lastCreate, lastGet, lastPut, now, pending, paid, customerEmails, validated,
                   started, puts>>

\* step 3 of the test endpoint: the form data itself is the subscriber;
\* without a database save the handler returns after it
TestSendWelcomeEmail(h, up) ==
    /\ Quiet
    /\ inv[h].handler = "test-itn"
    /\ inv[h].pc = "sendWelcomeEmail"
    /\ customerEmails' =
           IF sendWelcomeEmail(inv[h].fullFormData, up)
           THEN [customerEmails EXCEPT ![inv[h].submissionId] = @ + 1]
           ELSE customerEmails
    /\ IF inv[h].databaseSaveSuccess
       THEN Goto(h, "sendWelcomeEmail", sendWelcomeEmail(inv[h].fullFormData, up),
                 "deletePendingFormData")
       ELSE CallAndReturn(h, "sendWelcomeEmail",
                sendWelcomeEmail(inv[h].fullFormData, up),
                Response(200, "Test ITN processing complete", "", ""))
    /\ UNCHANGED <<env, lastCall, lastCleanup, dbClient, sigChecks, lastCreate, lastGet, lastPut, now, pending, paid, ownerEmails, validated,
                   started, puts>>

\* step 4 of the test endpoint, taken only after a database save
TestDeletePending(h, up) ==
    /\ Quiet
    /\ inv[h].handler = "test-itn"
    /\ inv[h].pc = "deletePendingFormData"
    /\ pending' = IF up
                  THEN deletePendingFormData(pending, inv[h].submissionId)
                  ELSE pending
    /\ CallAndReturn(h, "deletePendingFormData", up,
           Response(200, "Test ITN processing complete", "", ""))
    /\ UNCHANGED <<env, lastCall, lastCleanup, dbClient, sigChecks, lastCreate, lastGet, lastPut, now, paid, ownerEmails, customerEmails, validated,
                   started, puts>>

TestStep(h) ==
    \/ \E event \in TestEvents : TestReceive(h, event)
    \/ \E up \in BOOLEAN : TestListPending(h, up)
    \/ \E up \in BOOLEAN : TestListSubmissions(h, up)
    \/ \E up \in BOOLEAN : TestPoolEnd(h, up)
    \/ \E up \in BOOLEAN : TestInitializeSchema(h, up)
    \/ \E up \in BOOLEAN : TestSubmissionExists(h, up)
    \/ \E up \in BOOLEAN : TestGetPendingFormData(h, up)
    \/ \E up \in BOOLEAN : TestCreatePaid(h, up)
    \/ \E up \in BOOLEAN : TestSendOwnerEmail(h, up)
    \/ \E up \in BOOLEAN : TestSendWelcomeEmail(h, up)
    \/ \E up \in BOOLEAN : TestDeletePending(h, up)

\* the ITN endpoint, the checkout and the test endpoint
NextAll ==
    \/ \E h \in Procs : Respond(h)
    \/ \E id \in SubmissionIds : CheckoutStorePending(id)
    \/ \E h \in Procs : ItnStep(h)
    \/ \E h \in Procs : TestStep(h)

SpecAll == Init /\ [][NextAll]_vars

(***************************************************************************)
(* The stores on their own: the database module called directly, with any   *)
(* arguments, while the clock runs                                          *)
(***************************************************************************)
\* formData arguments
StoreFormData == { FormData("SSS-1"), [notes |-> "x"] }

\* paymentData arguments; << >> is a call without payment data, the last
\* two carry an amount with an exponent, one the column rounds and one it
\* refuses
StorePaymentData ==
    { << >>,
      [payment_status |-> "FAILED", pfPaymentId |-> "88", amount_gross |-> "abc"],
      [payment_status |-> "COMPLETE", pf_payment_id |-> "1415",
       amount_gross |-> "99.00", token |-> "tok-1"],
      [payment_status |-> "COMPLETE", amount_gross |-> "1e2", amount_net |-> "1.005"],
      [payment_status |-> "COMPLETE", amount_gross |-> "Infinity"] }

\* storePendingFormData(submissionId, formData)
ApiStorePending(submissionId, formData) ==
    /\ puts < MaxPuts
    /\ StorePending(submissionId, formData)
    /\ lastPut' = [submissionId |-> submissionId, formData |-> formData,
                   found |-> RowsOf(pending, submissionId)]

\* createPaidSubmission({ submissionId, formData, paymentData })
ApiCreatePaid(submissionId, formData, paymentData) ==
    /\ started < MaxInvocations
    /\ started' = started + 1
    /\ paid' = createPaidSubmission(paid, submissionId, formData, paymentData, now)
    /\ lastCreate' = [submissionId |-> submissionId, formData |-> formData,
                      paymentData |-> paymentData,
                      found |-> RowsOf(paid, submissionId)]
    /\ UNCHANGED <<env, lastCall, lastCleanup, dbClient, sigChecks, lastGet, lastPut, now, pending, inv, ownerEmails,
                   customerEmails, validated, puts>>

\* deletePendingFormData(submissionId)
ApiDeletePending(submissionId) ==
    /\ pending' = deletePendingFormData(pending, submissionId)
    /\ pending' # pending
    /\ UNCHANGED <<env, lastCall, lastCleanup, dbClient, sigChecks, lastCreate, lastGet, lastPut, now, paid, inv, ownerEmails, customerEmails,
                   validated, started, puts>>

\* getPendingFormData(submissionId, ignoreExpiry)
ApiGetPending(submissionId, ignoreExpiry) ==
    /\ lastGet' = [submissionId |-> submissionId, ignoreExpiry |-> ignoreExpiry,
                   rows |-> getPendingFormData(pending, submissionId, now, ignoreExpiry)]
    /\ UNCHANGED <<env, lastCall, lastCleanup, dbClient, sigChecks, lastCreate, lastPut, now, pending, paid, inv, ownerEmails,
                   customerEmails, validated, started, puts>>

InitStore == Init /\ env = GoodEnv

\* the pending-data store
NextPending ==
    \/ Tick
    \/ \E id \in SubmissionIds \cup {""} : \E fd \in StoreFormData :
           ApiStorePending(id, fd)
    \/ \E id \in SubmissionIds : ApiDeletePending(id)
    \/ \E id \in SubmissionIds \cup {""} : \E ignoreExpiry \in BOOLEAN :
           ApiGetPending(id, ignoreExpiry)
    \/ CleanupExpired

SpecPending == InitStore /\ [][NextPending]_vars

\* the paid-submission store
NextPaid ==
    \/ Tick
    \/ \E id \in SubmissionIds \cup {""} : \E fd \in StoreFormData :
       \E pd \in StorePaymentData : ApiCreatePaid(id, fd, pd)

SpecPaid == InitStore /\ [][NextPaid]_vars

\* the submission ids of the direct calls: one id, the empty string, and
\* an argument that is not there or null
CallIds == {"SSS-1", "", Undefined, Null}

\* the functions of the database module that take a submission id
StoreFunctions ==
    {"storePendingFormData", "getPendingFormData", "deletePendingFormData",
     "createPaidSubmission", "submissionExists", "findBySubmissionId"}

\* what a function returns when it has run its query: "row" is a record,
\* "null" none
ReturnedAfterQuery(op, submissionId, pendingRows, paidRows, t) ==
    CASE op \in {"storePendingFormData", "createPaidSubmission"} -> "row"
      [] op = "getPendingFormData" ->
             IF SelectSeq(RowsOf(pendingRows, submissionId),
                          LAMBDA row : row.expires_at > t) = <<>>
             THEN "null" ELSE "row"
      [] op = "deletePendingFormData" ->
             IF RowsOf(pendingRows, submissionId) = <<>> THEN "false" ELSE "true"
      [] op = "submissionExists" ->
             IF RowsOf(paidRows, submissionId) = <<>> THEN "false" ELSE "true"
      [] op = "findBySubmissionId" ->
             IF RowsOf(paidRows, submissionId) = <<>> THEN "null" ELSE "row"

\* a faulty module whose functions go to the database whatever the
\* submission id; the claims about calls without a submission id must tell
\* it from databaseCall
databaseCallUnguarded(op, submissionId, pendingRows, paidRows, t) ==
    [queried  |-> TRUE,
     returned |-> ReturnedAfterQuery(op, submissionId, pendingRows, paidRows, t)]

\* a function of the database module called with a submission id and,
\* where it takes one, valid form data: `if (!submissionId)` returns or
\* throws before the function takes a connection; otherwise the function
\* sends its query
databaseCall(op, submissionId, pendingRows, paidRows, t) ==
    IF ~Truthy(submissionId)
    THEN [queried  |-> FALSE,
          returned |->
              CASE op \in {"storePendingFormData", "createPaidSubmission"} -> "threw"
                [] op \in {"getPendingFormData", "findBySubmissionId"} -> "null"
                [] op \in {"deletePendingFormData", "submissionExists"} -> "false"]
    ELSE [queried  |-> TRUE,
          returned |-> ReturnedAfterQuery(op, submissionId, pendingRows, paidRows, t)]

\* direct calls of the database module's functions in one behaviour
MaxStoreCalls == 3

\* a function of the database module is called; the query it sends, if
\* any, is the INSERT, DELETE or SELECT of that function
StoreCall(op, submissionId, formData) ==
    /\ lastCall.calls < MaxStoreCalls
    /\ LET r == databaseCall(op, submissionId, pending, paid, now)
       IN  /\ pending' =
                  IF r.queried /\ op = "storePendingFormData"
                  THEN storePendingFormData(pending, submissionId, formData, now)
                  ELSE IF r.queried /\ op = "deletePendingFormData"
                  THEN SelectSeq(pending, LAMBDA row : row.submission_id # submissionId)
                  ELSE pending
           /\ paid' =
                  IF r.queried /\ op = "createPaidSubmission"
                  THEN PaidUpsert(paid, PaidInsertRow(submissionId, formData, <<>>, now), now)
                  ELSE paid
           /\ lastCall' = [op |-> op, submissionId |-> submissionId,
                           returned |-> r.returned, queried |-> r.queried,
                           calls |-> lastCall.calls + 1]
    /\ UNCHANGED <<env, lastCleanup, dbClient, sigChecks, lastCreate, lastGet, lastPut, now,
                   inv, ownerEmails, customerEmails, validated, started, puts>>

\* the database module called function by function
NextStoreCalls ==
    \E op \in StoreFunctions : \E id \in CallIds : \E fd \in StoreFormData :
        StoreCall(op, id, fd)

SpecStoreCalls == InitStore /\ [][NextStoreCalls]_vars

(***************************************************************************)
(* validatePayFastSignature called directly, on payloads that differ in the *)
(* order of their fields, in empty fields, in the signature they carry and  *)
(* in what follows the signature                                            *)
(***************************************************************************)
UpperChar(c) ==
    LET i == IndexIn(c, LowerCaseLetters, 1)
    IN  IF i = 0 THEN c ELSE CharAt(UpperCaseLetters, i)

\* the signature as a sender writes it in capitals
RECURSIVE ToUpperCase(_)
ToUpperCase(s) ==
    IF s = "" THEN ""
    ELSE UpperChar(CharAt(s, 1)) \o ToUpperCase(SubSeq(s, 2, Len(s)))

\* the fields a payload holds before its signature
SignedFieldLists ==
    { << <<"name_first", "Jo Ann">>, <<"amount_gross", "9.50">> >>,
      << <<"amount_gross", "9.50">>, <<"name_first", "Jo Ann">> >>,
      << <<"name_first", "Jo Ann">>, <<"name_last", "">>, <<"amount_gross", "9.50">> >>,
      << <<"name_first", "Jo Ann">>, <<"name_last", Null>>, <<"amount_gross", "9.50">> >>,
      << <<"name_first", "Jo Ann">>, <<"2", "x">> >>,
      << <<"name_first", "Jo Ann">> >> }

\* the digest of the non-empty fields in the order given, with the
\* passphrase when there is one
DigestInOrder(fields, passphrase) ==
    LET sent == SelectSeq(fields, LAMBDA f : f[2] \notin {"", Null, Undefined})
        text == JoinAmp([i \in DOMAIN sent |-> sent[i][1] \o "=" \o PayFastEncode(sent[i][2])])
    IN  MD5(IF passphrase = "" THEN text
            ELSE text \o "&passphrase=" \o PayFastEncode(passphrase))

\* the signatures a payload with these fields may carry: the sender's, in
\* lower case or in capitals, the one for no passphrase, the one for the
\* fields in the opposite order, and a wrong one
SignaturesFor(fields) ==
    { DigestInOrder(fields, Passphrase),
      ToUpperCase(DigestInOrder(fields, Passphrase)),
      DigestInOrder(fields, ""),
      DigestInOrder([i \in DOMAIN fields |-> fields[Len(fields) + 1 - i]], Passphrase),
      "0badc0de" }

\* what may follow the signature field
Trailers ==
    { <<>>, << <<"custom_str1", "SSS-1">> >>, << <<"custom_str1", "SSS-2">> >>,
      << <<"1", "y">> >> }

\* the payloads: the decoded pairs of a body in the order received, no key
\* twice
SignaturePayloads ==
    UNION { { fields \o << <<"signature", sig>> >> \o trailer :
                sig \in SignaturesFor(fields), trailer \in Trailers } :
            fields \in SignedFieldLists }
    \cup SignedFieldLists

Passphrases == {"", Passphrase}

\* validatePayFastSignature on the object parseUrlEncodedData makes of a
\* payload, for the model's payloads and passphrases, worked out once
SignatureCheckOf ==
    [data \in SignaturePayloads, passphrase \in Passphrases |->
        validatePayFastSignature(parseUrlEncodedData(data), passphrase)]

\* the handler decodes a payload and verifies it; the last two
\* verifications are kept, each with the payload as it was received
VerifySignature(data, passphrase) ==
    LET check == [data |-> data, passphrase |-> passphrase,
                  isValid |-> SignatureCheckOf[data, passphrase]]
    IN  /\ sigChecks' = IF sigChecks = <<>> THEN <<check>>
                        ELSE <<sigChecks[Len(sigChecks)], check>>
        /\ UNCHANGED <<env, lastCall, lastCleanup, dbClient, now, pending, paid, inv, ownerEmails, customerEmails,
                       validated, started, puts, lastPut, lastGet, lastCreate>>

NextSignature ==
    \E data \in SignaturePayloads, passphrase \in Passphrases :
        VerifySignature(data, passphrase)

SpecSignature == InitStore /\ [][NextSignature]_vars

(***************************************************************************)
(* The checkout (payfast-redirect): the handler that stores the customer's  *)
(* form and answers with the payment form.  A request body is the object    *)
(* the handler parses it to; the answer's form is its action and its hidden *)
(* inputs as the HTML carries them.                                         *)
(***************************************************************************)
\* MIN_SCORE = 0.5, in tenths
MIN_SCORE == 5

\* what the siteverify request comes to: an error, a timeout or an
\* unreadable answer (failed), or Google's verdict, with or without a score
RecaptchaReplies ==
    { [failed |-> TRUE,  success |-> FALSE, score |-> 0],
      [failed |-> FALSE, success |-> FALSE, score |-> 9],
      [failed |-> FALSE, success |-> TRUE],
      [failed |-> FALSE, success |-> TRUE,  score |-> 4],
      [failed |-> FALSE, success |-> TRUE,  score |-> 5] }

\* verifyRecaptcha(token, expectedAction, remoteIp): it resolves in every
\* case and never rejects
verifyRecaptcha(secretKey, token, reply) ==
    IF ~Truthy(secretKey) THEN [success |-> TRUE, skipped |-> TRUE]
    ELSE IF ~Truthy(token) THEN [success |-> FALSE, skipped |-> FALSE]
    ELSE IF reply.failed \/ ~reply.success THEN [success |-> FALSE, skipped |-> FALSE]
    ELSE LET score == IF "score" \in DOMAIN reply THEN reply.score ELSE 0
         IN  [success |-> score >= MIN_SCORE, skipped |-> FALSE]

\* process.env of the checkout: complete, without the reCAPTCHA secret,
\* without SITE_URL, with a mode that is not one
RedirectEnvs ==
    LET full == [SITE_URL |-> "https://s.co", RECAPTCHA_SECRET_KEY |-> "sec",
                 NOTIFICATION_EMAIL |-> "me@s.co"] @@ GoodEnv
    IN  { full,
          [full EXCEPT !.RECAPTCHA_SECRET_KEY = Undefined, !.NOTIFICATION_EMAIL = Undefined],
          [full EXCEPT !.SITE_URL = Undefined],
          [full EXCEPT !.PAYFAST_MODE = "test"] }

\* a body JSON.parse throws on, held as what the throw leaves behind
Unparsable == [SyntaxError |-> "Unexpected token"]

\* the requests the checkout receives: the nested format of subscribe.html
\* (once with an inner submissionId that differs and a phone number, once
\* with an id that HTML has to escape and without timestamp), the flat
\* format, one without a reCAPTCHA token, one without submissionId, one
\* whose formData is null and whose metadata is '', one with metadata, one
\* that parses to null, one that does not parse, one that is not POST
RedirectEvents ==
    { [httpMethod |-> "POST",
       body |-> [submissionId |-> "SSS-1",
                 formData |-> [CustomerForm("SSS-2") EXCEPT !.businessName = "Bolt & Co"]
                              @@ [businessPhone |-> "(082) 555-01", businessEmail |-> "b@bolt.co"],
                 timestamp |-> "t1", recaptchaToken |-> "tok"]],
      [httpMethod |-> "POST",
       body |-> [submissionId |-> "S&1", formData |-> [notes |-> "x"],
                 recaptchaToken |-> "tok"]],
      [httpMethod |-> "POST",
       body |-> [submissionId |-> "SSS-2", businessName |-> "Bolt", timestamp |-> "t2",
                 recaptchaToken |-> "tok"]],
      [httpMethod |-> "POST",
       body |-> [submissionId |-> "SSS-1", formData |-> CustomerForm("SSS-1"), timestamp |-> "t3"]],
      [httpMethod |-> "POST",
       body |-> [formData |-> CustomerForm("SSS-1"), timestamp |-> "t4", recaptchaToken |-> "tok"]],
      [httpMethod |-> "POST",
       body |-> [submissionId |-> "SSS-1", formData |-> JsonNull, businessName |-> "Flat Co",
                 timestamp |-> "t6", recaptchaToken |-> "tok",
                 metadata |-> JsonEmptyString]],
      [httpMethod |-> "POST",
       body |-> [submissionId |-> "SSS-2", formData |-> CustomerForm("SSS-2"),
                 timestamp |-> "t7", recaptchaToken |-> "tok",
                 metadata |-> [source |-> "web"]]],
      [httpMethod |-> "POST", body |-> JsonNull],
      [httpMethod |-> "POST", body |-> Unparsable],
      [httpMethod |-> "GET",
       body |-> [submissionId |-> "SSS-1", formData |-> CustomerForm("SSS-1"),
                 timestamp |-> "t5", recaptchaToken |-> "tok"]] }

\* s.replace(/[\s\-\(\)]/g, '')
RECURSIVE StripPhone(_)
StripPhone(s) ==
    IF s = "" THEN ""
    ELSE IF Len(s) = 1 THEN (IF IsSpace(s) \/ s \in {"-", "(", ")"} THEN "" ELSE s)
    ELSE LET half == Len(s) \div 2
         IN  StripPhone(SubSeq(s, 1, half)) \o StripPhone(SubSeq(s, half + 1, Len(s)))

\* the fields of the payment form, in the order the handler builds them
formFields(payfastConfig, e, submissionId, fullFormData, timestamp) ==
    LET siteUrl == Get(e, "SITE_URL")
    IN  << <<"merchant_id", payfastConfig.merchantId>>,
           <<"merchant_key", payfastConfig.merchantKey>>,
           <<"return_url", siteUrl \o "/thank-you-page.html">>,
           <<"cancel_url", siteUrl \o "/subscribe.html">>,
           <<"notify_url", siteUrl \o "/.netlify/functions/payfast-itn">>,
           <<"name_first", OrElse(Get(fullFormData, "ownerFirstName"), "")>>,
           <<"name_last", OrElse(Get(fullFormData, "ownerLastName"), "")>>,
           <<"email_address", OrElse(Get(fullFormData, "businessEmail"), "")>>,
           <<"cell_number", StripPhone(OrElse(Get(fullFormData, "businessPhone"), ""))>>,
           <<"m_payment_id", submissionId>>,
           <<"amount", "0.00">>,
           <<"item_name", "Landing Page Subscription - First Month Free">>,
           <<"item_description",
             "Professional landing page design and hosting subscription">>,
           <<"custom_str1", submissionId>>,
           <<"custom_str2", OrElse(Get(fullFormData, "businessName"), "")>>,
           <<"custom_str3", timestamp>>,
           <<"email_confirmation", "1">>,
           <<"confirmation_address", OrElse(Get(e, "NOTIFICATION_EMAIL"), "")>>,
           <<"subscription_type", "1">>,
           <<"recurring_amount", "499.99">>,
           <<"frequency", "3">>,
           <<"cycles", "0">> >>

\* generatePayFastSignature(data, passphrase)
generatePayFastSignature(data, passphrase) ==
    LET sent == SelectSeq(data, LAMBDA f : f[2] \notin {"", Null, Undefined})
        paramString ==
            JoinAmp([i \in DOMAIN sent |->
                        sent[i][1] \o "=" \o PayFastEncode(Trim(sent[i][2]))])
    IN  MD5(IF Truthy(passphrase)
            THEN paramString \o "&passphrase=" \o PayFastEncode(Trim(passphrase))
            ELSE paramString)

\* escapeHtml(str)
RECURSIVE escapeHtml(_)
escapeHtml(str) ==
    IF str = "" THEN ""
    ELSE IF Len(str) = 1
    THEN CASE str = "&" -> "&amp;"
           [] str = "<" -> "&lt;"
           [] str = ">" -> "&gt;"
           [] str = "\"" -> "&quot;"
           [] str = "'" -> "&#39;"
           [] OTHER -> str
    ELSE LET half == Len(str) \div 2
         IN  escapeHtml(SubSeq(str, 1, half)) \o escapeHtml(SubSeq(str, half + 1, Len(str)))

\* generateAutoSubmitForm(actionUrl, fields): the form's action and its
\* hidden inputs, name and value as the HTML holds them
generateAutoSubmitForm(actionUrl, fields) ==
    LET shown == SelectSeq(fields, LAMBDA f : f[2] \notin {Undefined, Null})
    IN  [action |-> escapeHtml(actionUrl),
         inputs |-> [i \in DOMAIN shown |->
                        <<shown[i][1], escapeHtml(TemplateString(shown[i][2]))>>]]

\* getPayFastProcessUrl() on the environment e: ok is FALSE where the code
\* throws, which it does when the mode is not valid
getPayFastProcessUrl(e) ==
    LET normalized == validateMode(Get(e, "PAYFAST_MODE"))
    IN  IF normalized = Null THEN [ok |-> FALSE, url |-> ""]
        ELSE [ok |-> TRUE,
              url |-> "https://"
                      \o (IF isSandboxMode(normalized)
                          THEN "sandbox.payfast.co.za" ELSE "www.payfast.co.za")
                      \o "/eng/process"]

\* steps 6 to 8 of the checkout: the answer that carries the payment form
PaymentForm(e, submissionId, fullFormData, timestamp) ==
    LET credentials   == getPayFastCredentials(e)
        payfastConfig ==
            credentials
            @@ [merchantKey |-> Get(e, IF isSandboxMode(credentials.mode)
                                       THEN "PAYFAST_SANDBOX_MERCHANT_KEY"
                                       ELSE "PAYFAST_LIVE_MERCHANT_KEY")]
        fields        == formFields(payfastConfig, e, submissionId, fullFormData, timestamp)
        signature     == generatePayFastSignature(fields, payfastConfig.passphrase)
    IN  [statusCode |-> 200, message |-> "", error |-> "", action |-> "",
         body |-> generateAutoSubmitForm(getPayFastProcessUrl(e).url,
                      fields \o << <<"signature", signature>> >>)]

\* the checkout on `event` under environment e at time t, up to the
\* reCAPTCHA request: the invocation as it stands at its first await or at
\* its return.  A body that parses to null makes requestData.submissionId
\* throw, which the outer catch answers.
RedirectGates(event, e, t) ==
    LET requestData  == event.body
        submissionId == OrElse(Get(requestData, "submissionId"), "")
        fullFormData == ObjectOrElse(requestData, "formData", requestData)
        timestamp    == OrElse(Get(requestData, "timestamp"), "T" \o ToString(t))
        begun        == [event |-> event, requestData |-> <<>>, timestamp |-> ""]
                        @@ [Fresh EXCEPT !.handler = "redirect"]
        end(resp)    == [begun EXCEPT !.pc = "done", !.response = resp]
    IN  IF event.httpMethod # "POST"
        THEN end(Response(405, "", "Method not allowed. Use POST.", ""))
        ELSE IF ~getPayFastCredentials(e).ok \/ ~getPayFastProcessUrl(e).ok
                \/ ~Truthy(Get(e, "SITE_URL"))
        THEN end(Response(500, "", "Server configuration error", ""))
        ELSE IF requestData = Unparsable
        THEN end(Response(400, "", "Invalid request body", ""))
        ELSE IF requestData = JsonNull
        THEN end(Response(500, "", "Internal server error", ""))
        ELSE IF ~Truthy(submissionId)
        THEN end(Response(400, "", "Missing submission ID", ""))
        ELSE [begun EXCEPT !.pc = "verifyRecaptcha",
                           !.requestData = requestData,
                           !.submissionId = submissionId,
                           !.fullFormData = fullFormData,
                           !.timestamp = timestamp]

\* RedirectGates and the payment form on the model's requests and
\* environments, worked out once
RedirectGatesOf ==
    [event \in RedirectEvents, e \in RedirectEnvs |-> RedirectGates(event, e, 0)]

PaymentFormOf ==
    [event \in RedirectEvents, e \in RedirectEnvs |->
        LET g == RedirectGatesOf[event, e]
        IN  IF g.pc = "done" THEN NoResponse
            ELSE PaymentForm(e, g.submissionId, g.fullFormData, g.timestamp)]

InitRedirect ==
    /\ env \in RedirectEnvs
    /\ now = 0
    /\ pending = <<>>
    /\ paid = <<>>
    /\ inv = [h \in Procs |-> Fresh]
    /\ ownerEmails = [id \in SubmissionIds \cup {""} |-> 0]
    /\ customerEmails = [id \in SubmissionIds \cup {""} |-> 0]
    /\ validated = {}
    /\ started = 0
    /\ puts = 0
    /\ lastPut = [submissionId |-> "", formData |-> <<>>, found |-> <<>>]
    /\ lastGet = [submissionId |-> "", ignoreExpiry |-> FALSE, rows |-> <<>>]
    /\ lastCreate = [submissionId |-> "", formData |-> <<>>, paymentData |-> <<>>,
                     found |-> <<>>]
    /\ sigChecks = <<>>
    /\ dbClient = ClientLoaded
    /\ lastCleanup = [at |-> 0, deleted |-> <<>>]
    /\ lastCall = NoCall

\* a request arrives: the method, the configuration, the body, the id
RedirectReceive(h, event) ==
    /\ Quiet
    /\ FreeSlot(h)
    /\ started < MaxInvocations
    /\ started' = started + 1
    /\ inv' = [inv EXCEPT ![h] = RedirectGatesOf[event, env]]
    /\ UNCHANGED <<env, lastCall, lastCleanup, dbClient, sigChecks, lastCreate, lastGet, lastPut, now, pending, paid, ownerEmails, customerEmails,
                   validated, puts>>

\* step 4: the reCAPTCHA verdict
RedirectVerifyRecaptcha(h, reply) ==
    /\ Quiet
    /\ inv[h].handler = "redirect"
    /\ inv[h].pc = "verifyRecaptcha"
    /\ LET requestData     == inv[h].requestData
           recaptchaToken  == OrElse(Get(requestData, "recaptchaToken"),
                                     Get(requestData, "g-recaptcha-response"))
           recaptchaResult == verifyRecaptcha(Get(env, "RECAPTCHA_SECRET_KEY"),
                                              recaptchaToken, reply)
       IN  IF ~recaptchaResult.success /\ ~recaptchaResult.skipped
           THEN CallAndReturn(h, "verifyRecaptcha", FALSE,
                    Response(400, "", "Security verification failed. Please try again.", ""))
           ELSE Goto(h, "verifyRecaptcha", TRUE, "initializeSchema")
    /\ UNCHANGED <<env, lastCall, lastCleanup, dbClient, sigChecks, lastCreate, lastGet, lastPut, now, pending, paid, ownerEmails, customerEmails,
                   validated, started, puts>>

\* step 5, first call: CREATE TABLE IF NOT EXISTS changes no row
RedirectInitializeSchema(h, up) ==
    /\ Quiet
    /\ inv[h].handler = "redirect"
    /\ inv[h].pc = "initializeSchema"
    /\ IF ~up
       THEN CallAndReturn(h, "initializeSchema", FALSE,
                Response(500, "", "Failed to prepare payment. Please try again.", ""))
       ELSE Goto(h, "initializeSchema", TRUE, "storePendingFormData")
    /\ UNCHANGED <<env, lastCall, lastCleanup, dbClient, sigChecks, lastCreate, lastGet, lastPut, now, pending, paid, ownerEmails, customerEmails,
                   validated, started, puts>>

\* a faulty step 5 that logs a failed write and answers with the payment
\* form all the same; the claims about the form coming after the write
\* must tell it from RedirectStorePending
RedirectStoreBestEffort(h, up) ==
    /\ Quiet
    /\ inv[h].handler = "redirect"
    /\ inv[h].pc = "storePendingFormData"
    /\ pending' = IF up
                  THEN storePendingFormData(pending, inv[h].submissionId,
                           pendingData(inv[h].requestData, inv[h].fullFormData,
                                       inv[h].submissionId, inv[h].timestamp), now)
                  ELSE pending
    /\ CallAndReturn(h, "storePendingFormData", up, PaymentFormOf[inv[h].event, env])
    /\ UNCHANGED <<env, lastCall, lastCleanup, dbClient, sigChecks, lastCreate, lastGet, lastPut, now, paid, ownerEmails, customerEmails,
                   validated, started, puts>>

\* step 5, second call, and steps 6 to 8: the write to the pending store
\* and, when it succeeded, the payment form
RedirectStorePending(h, up) ==
    /\ Quiet
    /\ inv[h].handler = "redirect"
    /\ inv[h].pc = "storePendingFormData"
    /\ IF ~up
       THEN /\ CallAndReturn(h, "storePendingFormData", FALSE,
                   Response(500, "", "Failed to prepare payment. Please try again.", ""))
            /\ UNCHANGED pending
       ELSE /\ pending' = storePendingFormData(pending, inv[h].submissionId,
                              pendingData(inv[h].requestData, inv[h].fullFormData,
                                          inv[h].submissionId, inv[h].timestamp), now)
            /\ CallAndReturn(h, "storePendingFormData", TRUE,
                   PaymentFormOf[inv[h].event, env])
    /\ UNCHANGED <<env, lastCall, lastCleanup, dbClient, sigChecks, lastCreate, lastGet, lastPut, now, paid, ownerEmails, customerEmails,
                   validated, started, puts>>

RedirectStep(h) ==
    \/ \E event \in RedirectEvents : RedirectReceive(h, event)
    \/ \E reply \in RecaptchaReplies : RedirectVerifyRecaptcha(h, reply)
    \/ \E up \in BOOLEAN : RedirectInitializeSchema(h, up)
    \/ \E up \in BOOLEAN : RedirectStorePending(h, up)

\* the checkout endpoint
NextRedirect ==
    \/ \E h \in Procs : Respond(h)
    \/ \E h \in Procs : RedirectStep(h)

SpecRedirect == InitRedirect /\ [][NextRedirect]_vars

(***************************************************************************)
(* The database client (database-client): appendToDatabase with its retry   *)
(* loop, the in-memory retry queue and processRetryQueue, in one container  *)
(* that is not restarted.  A request's data is the submission id it         *)
(* carries.                                                                 *)
(***************************************************************************)
MAX_RETRIES == 3

RETRY_DELAY_MS == 500

BACKOFF_MULTIPLIER == 2

\* appendToDatabase calls in one container
MaxAppends == 1

\* what a request to the remote API can come back with: the status of the
\* answer (0: none, the connection failed, the request timed out or the
\* API URL or the secret is not set) and its body: a JSON object, one
\* whose field `queued` is truthy ("objectQueued"), the JSON value null, or
\* text that is no JSON
RequestOutcomes ==
    { [statusCode |-> 200, body |-> "object"],
      [statusCode |-> 200, body |-> "objectQueued"],
      [statusCode |-> 200, body |-> "null"],
      [statusCode |-> 400, body |-> "object"],
      [statusCode |-> 400, body |-> "null"],
      [statusCode |-> 404, body |-> "text"],
      [statusCode |-> 503, body |-> "object"],
      [statusCode |-> 0,   body |-> "text"] }

\* the answers of an API that is reachable and stays so, and of one that
\* may be offline or refuse
OutcomesOf(api) ==
    IF api = "online"
    THEN {o \in RequestOutcomes :
              o.statusCode = 200 /\ o.body \in {"object", "objectQueued"}}
    ELSE RequestOutcomes

\* makeRequest(method, path, data) on an outcome: resolved (ok) with the
\* parsed body (value: "null" when the body is the JSON null, "objectQueued"
\* when it is an object with a truthy `queued`), or rejected
\* with an error whose statusCode is set only when the body parsed and
\* reading parsed.error did not throw, which it does on null; 0 stands for
\* an error without statusCode
makeRequest(outcome) ==
    IF outcome.statusCode >= 200 /\ outcome.statusCode < 300
    THEN [ok |-> TRUE, statusCode |-> 0, status |-> outcome.statusCode,
          value |-> IF outcome.body \in {"null", "objectQueued"}
                    THEN outcome.body ELSE "object"]
    ELSE IF outcome.statusCode # 0 /\ outcome.body \in {"object", "objectQueued"}
    THEN [ok |-> FALSE, statusCode |-> outcome.statusCode,
          status |-> outcome.statusCode, value |-> ""]
    ELSE [ok |-> FALSE, statusCode |-> 0, status |-> outcome.statusCode, value |-> ""]

\* the answer was a 4xx, whatever its body
Is4xx(res) == res.status >= 400 /\ res.status < 500

\* queueForRetry calls in one container, where they are made directly
MaxQueued == 2

\* a faulty loop without the test of attempts against maxAttempts: every
\* entry is counted and posted again; the claims about abandoned entries
\* must tell it from RetryLoop
RetryLoopNoLimit(c) ==
    LET i == c.run.index
    IN  IF i > Len(c.retryQueue)
        THEN [c EXCEPT
                !.retryQueue = SelectSeq(c.retryQueue, LAMBDA e :
                                   \A k \in DOMAIN c.run.successfulIds :
                                       c.run.successfulIds[k] # e.id),
                !.isProcessingQueue = FALSE,
                !.passes = @ - 1,
                !.run = RunIdle]
        ELSE [c EXCEPT !.retryQueue[i].attempts = @ + 1,
                       !.run.pc = "makeRequest"]

\* the loop of processRetryQueue from entry c.run.index on, up to its next
\* await or to its end: entries at their last attempt are marked for
\* removal, the next one is counted and posted; at the end the marked
\* entries leave the queue and the flag goes down
RECURSIVE RetryLoop(_)
RetryLoop(c) ==
    LET i == c.run.index
    IN  IF i > Len(c.retryQueue)
        THEN [c EXCEPT
                !.retryQueue = SelectSeq(c.retryQueue, LAMBDA e :
                                   \A k \in DOMAIN c.run.successfulIds :
                                       c.run.successfulIds[k] # e.id),
                !.isProcessingQueue = FALSE,
                !.passes = @ - 1,
                !.run = RunIdle]
        ELSE IF c.retryQueue[i].attempts >= c.retryQueue[i].maxAttempts
        THEN RetryLoop([c EXCEPT
                          !.run.successfulIds = Append(@, c.retryQueue[i].id),
                          !.run.index = i + 1])
        ELSE [c EXCEPT !.retryQueue[i].attempts = @ + 1,
                       !.run.pc = "makeRequest"]

\* a faulty processRetryQueue that does not look at the flag: a call made
\* while a pass is suspended on its POST starts a second pass over the
\* queue; the claims about concurrent passes must tell it from
\* processRetryQueue
processRetryQueueUnguarded(c) ==
    IF c.retryQueue = <<>> THEN c
    ELSE RetryLoop([c EXCEPT !.isProcessingQueue = TRUE,
                             !.passes = @ + 1,
                             !.run = [pc |-> "loop", index |-> 1, successfulIds |-> <<>>]])

\* processRetryQueue() up to its first await
processRetryQueue(c) ==
    IF c.isProcessingQueue \/ c.retryQueue = <<>> THEN c
    ELSE RetryLoop([c EXCEPT !.isProcessingQueue = TRUE,
                             !.passes = @ + 1,
                             !.run = [pc |-> "loop", index |-> 1, successfulIds |-> <<>>]])

\* queueForRetry(data): the entry goes to the end of the queue and a run of
\* processRetryQueue is started in the background; `refused` remembers
\* that the data has had a 4xx answer, `posted` that a POST of the entry
\* has succeeded
queueForRetry(c, data, refused) ==
    processRetryQueue(
        [c EXCEPT !.queued = @ + 1,
                  !.retryQueue =
            Append(@, [id          |-> "queue-" \o ToString(c.queued + 1),
                       data        |-> data,
                       attempts    |-> 0,
                       maxAttempts |-> 5,
                       refused     |-> refused,
                       posted      |-> FALSE])])

\* appendToDatabase(subscriberData, options) is called: a temporary id when
\* there is none, then the first request of makeRequestWithRetry
AppendToDatabase(submissionId, queueOnFailure) ==
    /\ dbClient.call.pc \in {"idle", "done"}
    /\ dbClient.appends < MaxAppends
    /\ dbClient' =
           [dbClient EXCEPT
              !.appends = @ + 1,
              !.call = [CallIdle EXCEPT
                          !.op = "appendToDatabase",
                          !.pc = "makeRequest",
                          !.data = IF Truthy(submissionId) THEN submissionId
                                   ELSE "TEMP-" \o ToString(dbClient.appends + 1),
                          !.queueOnFailure = queueOnFailure,
                          !.attempt = 1,
                          !.delay = RETRY_DELAY_MS]]
    /\ UNCHANGED <<env, lastCall, lastCleanup, sigChecks, lastCreate, lastGet, lastPut, now, pending, paid, inv,
                   ownerEmails, customerEmails, validated, started, puts>>

\* what updateRecord can be called with: the fields are spread over the
\* submission_id, so a submission_id among them takes its place
UpdateFields == { [status |-> "paid"], [status |-> "paid", submission_id |-> "SSS-2"] }

\* updateRecord(submissionId, fields) is called: it throws without an id,
\* else the first request of makeRequestWithRetry with the update data
UpdateRecord(submissionId, fields) ==
    /\ dbClient.call.pc \in {"idle", "done"}
    /\ dbClient.appends < MaxAppends
    /\ dbClient' =
           [dbClient EXCEPT
              !.appends = @ + 1,
              !.call = IF ~Truthy(submissionId)
                       THEN [CallIdle EXCEPT !.op = "updateRecord", !.pc = "done",
                                             !.outcome = "threw"]
                       ELSE [CallIdle EXCEPT
                               !.op = "updateRecord",
                               !.pc = "makeRequest",
                               !.data = IF "submission_id" \in DOMAIN fields
                                        THEN fields.submission_id ELSE submissionId,
                               !.queueOnFailure = FALSE,
                               !.attempt = 1,
                               !.delay = RETRY_DELAY_MS]]
    /\ UNCHANGED <<env, lastCall, lastCleanup, sigChecks, lastCreate, lastGet, lastPut, now, pending, paid, inv,
                   ownerEmails, customerEmails, validated, started, puts>>

\* the request of makeRequestWithRetry of the call c.call comes back: the
\* rest of the loop's body and what the caller does when the loop ends.
\* appendToDatabase reads result.action inside its try, which throws on a
\* null result, and its catch queues the data on an error without
\* statusCode or with one of 500 or more; updateRecord returns the result
\* as it is and throws what the loop throws; queueForRetry returns an
\* object whose `queued` is true
RequestReturned(c0, outcome) ==
    LET res == makeRequest(outcome)
        c   == [c0 EXCEPT !.call.results = Append(@, res),
                          !.call.refused = @ \/ Is4xx(res)]
        caught(c1, statusCode) ==
            IF /\ c1.call.op = "appendToDatabase"
               /\ c1.call.queueOnFailure
               /\ (statusCode = 0 \/ statusCode >= 500)
            THEN queueForRetry([c1 EXCEPT !.call.pc = "done", !.call.outcome = "queued",
                                          !.call.value = "objectQueued"],
                               c1.call.data, c1.call.refused)
            ELSE [c1 EXCEPT !.call.pc = "done", !.call.outcome = "threw"]
        returned == [c EXCEPT !.call.loop = "returned",
                              !.delivered = @ \cup {c.call.data}]
        threw    == caught([c EXCEPT !.call.loop = "threw"], res.statusCode)
    IN  IF res.ok
        THEN IF c.call.op = "appendToDatabase" /\ res.value = "null"
             THEN caught(returned, 0)
             ELSE [returned EXCEPT !.call.pc = "done", !.call.outcome = "returned",
                                   !.call.value = res.value]
        ELSE IF res.statusCode # 0 /\ res.statusCode >= 400 /\ res.statusCode < 500
        THEN threw
        ELSE IF c.call.attempt < MAX_RETRIES
        THEN [c EXCEPT !.call.pc = "sleep"]
        ELSE threw

\* a faulty loop that sleeps and tries again whatever the error; the claims
\* about refusals and about the number of attempts must tell it from
\* MakeRequestReturns
MakeRequestAlwaysRetries(outcome) ==
    /\ dbClient.call.pc = "makeRequest"
    /\ outcome \in OutcomesOf(dbClient.api)
    /\ LET res == makeRequest(outcome)
           c   == [dbClient EXCEPT !.call.results = Append(@, res),
                                   !.call.refused = @ \/ Is4xx(res)]
       IN  dbClient' =
               IF res.ok
               THEN [c EXCEPT !.call.pc = "done", !.call.loop = "returned",
                              !.call.outcome = "returned",
                              !.call.value = res.value,
                              !.delivered = @ \cup {c.call.data}]
               ELSE [c EXCEPT !.call.pc = "sleep"]
    /\ UNCHANGED <<env, lastCall, lastCleanup, sigChecks, lastCreate, lastGet, lastPut, now, pending, paid, inv,
                   ownerEmails, customerEmails, validated, started, puts>>

\* a request of the call made directly comes back
MakeRequestReturns(outcome) ==
    /\ dbClient.call.pc = "makeRequest"
    /\ outcome \in OutcomesOf(dbClient.api)
    /\ dbClient' = RequestReturned(dbClient, outcome)
    /\ UNCHANGED <<env, lastCall, lastCleanup, sigChecks, lastCreate, lastGet, lastPut, now, pending, paid, inv,
                   ownerEmails, customerEmails, validated, started, puts>>

\* await sleep(delay); delay *= BACKOFF_MULTIPLIER; the next attempt
Sleep ==
    /\ dbClient.call.pc = "sleep"
    /\ dbClient' = [dbClient EXCEPT
                      !.call.pc = "makeRequest",
                      !.call.slept = Append(@, dbClient.call.delay),
                      !.call.delay = @ * BACKOFF_MULTIPLIER,
                      !.call.attempt = @ + 1]
    /\ UNCHANGED <<env, lastCall, lastCleanup, sigChecks, lastCreate, lastGet, lastPut, now, pending, paid, inv,
                   ownerEmails, customerEmails, validated, started, puts>>

\* processRetryQueue() is called from outside the module (it is exported)
ProcessRetryQueue ==
    /\ ~dbClient.isProcessingQueue
    /\ dbClient.retryQueue # <<>>
    /\ dbClient' = processRetryQueue(dbClient)
    /\ UNCHANGED <<env, lastCall, lastCleanup, sigChecks, lastCreate, lastGet, lastPut, now, pending, paid, inv,
                   ownerEmails, customerEmails, validated, started, puts>>

\* the request of processRetryQueue comes back: a success marks the entry
\* for removal, a failure leaves it; then the loop goes on
QueueRequestReturns(outcome) ==
    /\ dbClient.run.pc = "makeRequest"
    /\ outcome \in OutcomesOf(dbClient.api)
    /\ LET res == makeRequest(outcome)
           i   == dbClient.run.index
           c   == [dbClient EXCEPT
                     !.retryQueue[i].refused = @ \/ Is4xx(res),
                     !.retryQueue[i].posted = @ \/ res.ok,
                     !.run.successfulIds =
                         IF res.ok THEN Append(@, dbClient.retryQueue[i].id) ELSE @,
                     !.delivered =
                         IF res.ok THEN @ \cup {dbClient.retryQueue[i].data} ELSE @,
                     !.run.index = i + 1,
                     !.run.pc = "loop"]
       IN  dbClient' = RetryLoop(c)
    /\ UNCHANGED <<env, lastCall, lastCleanup, sigChecks, lastCreate, lastGet, lastPut, now, pending, paid, inv,
                   ownerEmails, customerEmails, validated, started, puts>>

\* queueForRetry(data) is called: an appendToDatabase call whose requests
\* have failed hands its data to the queue
QueueForRetry(data) ==
    /\ dbClient.queued < MaxQueued
    /\ dbClient' = queueForRetry(dbClient, data, FALSE)
    /\ UNCHANGED <<env, lastCall, lastCleanup, sigChecks, lastCreate, lastGet, lastPut, now, pending, paid, inv,
                   ownerEmails, customerEmails, validated, started, puts>>

\* the remote API becomes reachable and stays so
ApiSettles ==
    /\ dbClient.api = "any"
    /\ dbClient' = [dbClient EXCEPT !.api = "online"]
    /\ UNCHANGED <<env, lastCall, lastCleanup, sigChecks, lastCreate, lastGet, lastPut, now, pending, paid, inv,
                   ownerEmails, customerEmails, validated, started, puts>>

NextClient ==
    \/ \E id \in SubmissionIds \cup {""} : \E queueOnFailure \in BOOLEAN :
           AppendToDatabase(id, queueOnFailure)
    \/ \E id \in SubmissionIds \cup {""} : \E fields \in UpdateFields :
           UpdateRecord(id, fields)
    \/ \E outcome \in RequestOutcomes : MakeRequestReturns(outcome)
    \/ Sleep
    \/ ProcessRetryQueue
    \/ \E outcome \in RequestOutcomes : QueueRequestReturns(outcome)
    \/ ApiSettles

SpecClient == InitStore /\ [][NextClient]_vars

\* the event loop runs what is in flight: a request comes back (30 s
\* timeout), a sleep ends; the API settles; and, beyond what the module
\* itself schedules, processRetryQueue is called again whenever the queue
\* holds an entry and no run is in flight
SpecClientLive ==
    /\ SpecClient
    /\ WF_vars(\E outcome \in RequestOutcomes : MakeRequestReturns(outcome))
    /\ WF_vars(Sleep)
    /\ WF_vars(\E outcome \in RequestOutcomes : QueueRequestReturns(outcome))
    /\ WF_vars(ProcessRetryQueue)
    /\ WF_vars(ApiSettles)

\* the retry queue on its own: queueForRetry and processRetryQueue called
\* in any order, also while a pass is suspended on its POST
NextQueue ==
    \/ \E data \in SubmissionIds : QueueForRetry(data)
    \/ ProcessRetryQueue
    \/ \E outcome \in RequestOutcomes : QueueRequestReturns(outcome)

SpecQueue == InitStore /\ [][NextQueue]_vars

(***************************************************************************)
(* The earlier ITN handler, which saves through database-client and        *)
(* awaits the remote logger between its steps.  Its database is the remote  *)
(* API of the client; each invocation holds its own appendToDatabase call,  *)
(* and the invocations of a container share the client's retry queue.       *)
(***************************************************************************)
\* extractSubscriberData(itnData), the fields the handler goes on to use
extractSubscriberData(itnData) ==
    [submissionId  |-> OrElse(Field(itnData, "custom_str1"), ""),
     pfPaymentId   |-> OrElse(Field(itnData, "pf_payment_id"), ""),
     paymentStatus |-> OrElse(Field(itnData, "payment_status"), ""),
     firstName     |-> OrElse(Field(itnData, "name_first"), ""),
     lastName      |-> OrElse(Field(itnData, "name_last"), ""),
     email         |-> OrElse(Field(itnData, "email_address"), ""),
     amountGross   |-> OrElse(Field(itnData, "amount_gross"), ""),
     customStr2    |-> OrElse(Field(itnData, "custom_str2"), ""),
     token         |-> OrElse(Field(itnData, "token"), "")]

\* the requests the earlier endpoint receives
LegacyEvents ==
    { Signed(ItnFields("COMPLETE", "0.00", "SSS-1", MerchantId)),
      Signed(ItnFields("PENDING", "0.00", "SSS-1", MerchantId)),
      [httpMethod |-> "POST",
       body |-> ItnFields("COMPLETE", "0.00", "SSS-1", MerchantId)
                \o << <<"signature", "0badc0de">> >>],
      [httpMethod |-> "GET", body |-> <<>>] }

\* the request arrives: the handler starts and awaits the remote logger
\* (line 56) before it looks at the request
LegacyReceive(h, event) ==
    /\ Quiet
    /\ FreeSlot(h)
    /\ started < MaxInvocations
    /\ started' = started + 1
    /\ inv' = [inv EXCEPT ![h] = [Fresh EXCEPT !.handler = "itn-legacy",
                                               !.pc = "logReceived",
                                               !.event = event]]
    /\ UNCHANGED <<env, lastCall, lastCleanup, dbClient, sigChecks, lastCreate, lastGet, lastPut, now, pending, paid, ownerEmails, customerEmails,
                   validated, puts>>

\* the handler from the return of the logger call it awaits at r.pc to its
\* next await or to its return, under environment e.  The logger resolves
\* whatever the API answers and its result is not looked at.
LegacyAfterLog(r, e) ==
    LET payfastConfig == getPayFastCredentials(e)
        itnData       == r.itnData
        end(resp)     == [r EXCEPT !.pc = "done", !.response = resp]
    IN  CASE r.pc = "logReceived" ->
                 IF r.event.httpMethod # "POST"
                 THEN end(Response(405, "", "Method not allowed", ""))
                 ELSE IF ~payfastConfig.ok
                 THEN end(Response(500, "", "Server configuration error", ""))
                 ELSE [r EXCEPT !.itnData = parseUrlEncodedData(r.event.body),
                                !.pc = "logParsed"]
          [] r.pc = "logParsed" ->
                 IF ~validatePayFastSignature(itnData, payfastConfig.passphrase)
                 THEN [r EXCEPT !.pc = "logInvalidSignature"]
                 ELSE [r EXCEPT !.pc = "logSignatureValidated"]
          [] r.pc = "logInvalidSignature" ->
                 end(Response(400, "", "Invalid signature", ""))
          [] r.pc = "logSignatureValidated" ->
                 LET pre == RequestPrecheck(itnData, payfastConfig.merchantId)
                 IN  IF pre # ""
                     THEN [r EXCEPT !.validationResult = [valid |-> FALSE, error |-> pre],
                                    !.pc = "logValidationFailed"]
                     ELSE [r EXCEPT !.pc = "confirmWithPayFast"]
          [] r.pc = "logValidationFailed" ->
                 end(Response(400, "", r.validationResult.error, ""))
          [] r.pc = "logValidationPassed" ->
                 IF Field(itnData, "payment_status") # "COMPLETE"
                 THEN [r EXCEPT !.pc = "logNotComplete"]
                 ELSE [r EXCEPT !.pc = "logComplete"]
          [] r.pc = "logNotComplete" ->
                 end(Response(200, "ITN received", "", "no_action_required"))
          [] r.pc = "logComplete" ->
                 [r EXCEPT !.submissionId = extractSubscriberData(itnData).submissionId,
                           !.pc = "logSaving"]
          [] r.pc \in {"logQueued", "logSaved", "logSaveFailed"} ->
                 [r EXCEPT !.pc = "logSendingOwner"]
          [] r.pc = "logSendingOwner" ->
                 [r EXCEPT !.pc = "sendNotificationEmail"]
          [] r.pc \in {"logOwnerSent", "logOwnerFailed"} ->
                 IF Truthy(extractSubscriberData(itnData).email)
                 THEN [r EXCEPT !.pc = "logSendingWelcome"]
                 ELSE [r EXCEPT !.pc = "logNoClientEmail"]
          [] r.pc = "logSendingWelcome" ->
                 [r EXCEPT !.pc = "sendWelcomeEmail"]
          [] r.pc \in {"logWelcomeSent", "logWelcomeFailed", "logNoClientEmail"} ->
                 [r EXCEPT !.pc = "logProcessingComplete"]
          [] r.pc = "logProcessingComplete" ->
                 end(Response(200, "ITN processed successfully", "", ""))

\* the positions at which the handler awaits the logger and goes on
\* without touching the database client
LegacyLogAwaits ==
    {"logReceived", "logParsed", "logInvalidSignature", "logSignatureValidated",
     "logValidationFailed", "logValidationPassed", "logNotComplete", "logComplete",
     "logQueued", "logSaved", "logSaveFailed", "logSendingOwner", "logOwnerSent",
     "logOwnerFailed", "logSendingWelcome", "logWelcomeSent", "logWelcomeFailed",
     "logNoClientEmail", "logProcessingComplete"}

\* an awaited logger call (remoteLog) comes back
LegacyLogReturns(h) ==
    /\ Quiet
    /\ inv[h].handler = "itn-legacy"
    /\ inv[h].pc \in LegacyLogAwaits
    /\ inv' = [inv EXCEPT ![h] = LegacyAfterLog(inv[h], env)]
    /\ UNCHANGED <<env, lastCall, lastCleanup, dbClient, sigChecks, lastCreate, lastGet, lastPut, now, pending, paid, ownerEmails, customerEmails,
                   validated, started, puts>>

\* the confirmation endpoint replies: the rest of step 5, up to the logger
\* call that reports it
LegacyConfirmReturns(h, reply) ==
    /\ Quiet
    /\ inv[h].handler = "itn-legacy"
    /\ inv[h].pc = "confirmWithPayFast"
    /\ LET validationResult == validatePayFastRequest(inv[h].itnData,
                                   CredentialsOf[env].merchantId, reply)
       IN  inv' = [inv EXCEPT
                     ![h].validationResult = validationResult,
                     ![h].calls = Append(@, <<"confirmWithPayFast", ~reply.failed>>),
                     ![h].pc = IF validationResult.valid THEN "logValidationPassed"
                               ELSE "logValidationFailed"]
    /\ UNCHANGED <<env, lastCall, lastCleanup, dbClient, sigChecks, lastCreate, lastGet, lastPut, now, pending, paid, ownerEmails, customerEmails,
                   validated, started, puts>>

\* step 8: the logger call before the save comes back and the handler
\* calls appendToDatabase(subscriberData) of the database client, which
\* runs to the first request of makeRequestWithRetry
LegacyAppendToDatabase(h) ==
    /\ Quiet
    /\ inv[h].handler = "itn-legacy"
    /\ inv[h].pc = "logSaving"
    /\ dbClient' = [dbClient EXCEPT !.appends = @ + 1]
    /\ inv' = [inv EXCEPT
                 ![h].pc = "appendToDatabase",
                 ![h].call = [CallIdle EXCEPT
                                !.op = "appendToDatabase",
                                !.pc = "makeRequest",
                                !.data = IF Truthy(inv[h].submissionId)
                                         THEN inv[h].submissionId
                                         ELSE "TEMP-" \o ToString(dbClient.appends + 1),
                                !.attempt = 1,
                                !.delay = RETRY_DELAY_MS]]
    /\ UNCHANGED <<env, lastCall, lastCleanup, sigChecks, lastCreate, lastGet, lastPut, now, pending, paid, ownerEmails, customerEmails,
                   validated, started, puts>>

\* a request of the handler's appendToDatabase call comes back; when the
\* call ends its locals are gone; the handler catches what the call throws
\* and otherwise takes the record as saved and reads dbResult.queued, of
\* the object queueForRetry returned or of the API's own answer, to choose
\* the log line.  The record of the answers and
\* of the sleeps, which the code does not hold, is kept for calls made
\* directly only.
LegacyMakeRequestReturns(h, outcome) ==
    /\ Quiet
    /\ inv[h].handler = "itn-legacy"
    /\ inv[h].pc = "appendToDatabase"
    /\ inv[h].call.pc = "makeRequest"
    /\ outcome \in OutcomesOf(dbClient.api)
    /\ LET c    == RequestReturned([dbClient EXCEPT !.call = inv[h].call], outcome)
           call == c.call
       IN  /\ dbClient' = [c EXCEPT !.call = dbClient.call]
           /\ inv' = [inv EXCEPT ![h] =
                  IF call.pc # "done"
                  THEN [@ EXCEPT !.call = [call EXCEPT !.results = <<>>]]
                  ELSE [@ EXCEPT
                          !.call = CallIdle,
                          !.databaseSaveSuccess = call.outcome # "threw",
                          !.calls = Append(@, <<"appendToDatabase", call.outcome # "threw">>),
                          !.pc = CASE call.outcome = "threw"      -> "logSaveFailed"
                                   [] call.value = "objectQueued" -> "logQueued"
                                   [] OTHER                       -> "logSaved"]]
    /\ UNCHANGED <<env, lastCall, lastCleanup, sigChecks, lastCreate, lastGet, lastPut, now, pending, paid, ownerEmails, customerEmails,
                   validated, started, puts>>

\* the sleep between two attempts of the handler's call ends
LegacySleep(h) ==
    /\ Quiet
    /\ inv[h].handler = "itn-legacy"
    /\ inv[h].pc = "appendToDatabase"
    /\ inv[h].call.pc = "sleep"
    /\ inv' = [inv EXCEPT
                 ![h].call.pc = "makeRequest",
                 ![h].call.delay = @ * BACKOFF_MULTIPLIER,
                 ![h].call.attempt = @ + 1]
    /\ UNCHANGED <<env, lastCall, lastCleanup, dbClient, sigChecks, lastCreate, lastGet, lastPut, now, pending, paid, ownerEmails, customerEmails,
                   validated, started, puts>>

\* step 9: the owner notification comes back, sent or thrown
LegacySendNotificationEmail(h, up) ==
    /\ Quiet
    /\ inv[h].handler = "itn-legacy"
    /\ inv[h].pc = "sendNotificationEmail"
    /\ ownerEmails' = IF up
                      THEN [ownerEmails EXCEPT ![inv[h].submissionId] = @ + 1]
                      ELSE ownerEmails
    /\ Goto(h, "sendNotificationEmail", up,
            IF up THEN "logOwnerSent" ELSE "logOwnerFailed")
    /\ UNCHANGED <<env, lastCall, lastCleanup, dbClient, sigChecks, lastCreate, lastGet, lastPut, now, pending, paid, customerEmails, validated,
                   started, puts>>

\* step 10: the welcome email comes back, sent or thrown
LegacySendWelcomeEmail(h, up) ==
    /\ Quiet
    /\ inv[h].handler = "itn-legacy"
    /\ inv[h].pc = "sendWelcomeEmail"
    /\ customerEmails' =
           IF sendWelcomeEmail(extractSubscriberData(inv[h].itnData), up)
           THEN [customerEmails EXCEPT ![inv[h].submissionId] = @ + 1]
           ELSE customerEmails
    /\ Goto(h, "sendWelcomeEmail", up,
            IF up THEN "logWelcomeSent" ELSE "logWelcomeFailed")
    /\ UNCHANGED <<env, lastCall, lastCleanup, dbClient, sigChecks, lastCreate, lastGet, lastPut, now, pending, paid, ownerEmails, validated,
                   started, puts>>

LegacyStep(h) ==
    \/ \E event \in LegacyEvents : LegacyReceive(h, event)
    \/ LegacyLogReturns(h)
    \/ \E reply \in ConfirmReplies : LegacyConfirmReturns(h, reply)
    \/ LegacyAppendToDatabase(h)
    \/ \E outcome \in RequestOutcomes : LegacyMakeRequestReturns(h, outcome)
    \/ LegacySleep(h)
    \/ \E up \in BOOLEAN : LegacySendNotificationEmail(h, up)
    \/ \E up \in BOOLEAN : LegacySendWelcomeEmail(h, up)

\* the earlier handler in one container, with the queue pass that its
\* appendToDatabase calls start in the background
NextLegacy ==
    \/ \E h \in Procs : Respond(h)
    \/ \E h \in Procs : LegacyStep(h)
    \/ \E outcome \in RequestOutcomes : QueueRequestReturns(outcome)

SpecLegacy == Init /\ [][NextLegacy]_vars

(***************************************************************************)
(* Properties                                                               *)
(***************************************************************************)
\* invocation h takes a step of `handler` that leaves pc `at`
StepFrom(h, handler, at) ==
    /\ inv[h].handler = handler
    /\ inv[h].pc = at
    /\ inv'[h].pc # at

\* the call invocation h has just made came back without throwing
LastCallOk(h) ==
    /\ inv'[h].calls # <<>>
    /\ inv'[h].calls[Len(inv'[h].calls)][2]

\* invocation h has made call `name` and it came back without throwing
CalledOk(h, name) ==
    \E i \in DOMAIN inv[h].calls : inv[h].calls[i] = <<name, TRUE>>

\* every call invocation h has made came back without throwing
AllCallsOk(h) ==
    \A i \in DOMAIN inv[h].calls : inv[h].calls[i][2]

\* a step that leaves both stores and both mailboxes as they are
NothingStoredOrSent ==
    /\ pending' = pending
    /\ paid' = paid
    /\ ownerEmails' = ownerEmails
    /\ customerEmails' = customerEmails

\* the notifications, as the handler parses them, that carry the signature
\* PayFast computes for their fields
ProviderSigned ==
    { d \in { parseUrlEncodedData(event.body) : event \in ItnEvents } :
        /\ d # <<>>
        /\ Field(d, "signature") =
               ProviderSignature(WithoutField(d, "signature"), Passphrase) }

\* the pending store has a record for id that has not expired
LivePending(id) ==
    \E i \in DOMAIN pending :
        pending[i].submission_id = id /\ pending[i].expires_at > now

\* C1: after any calls of createPaidSubmission, with any form data and any
\* payment data, every row of the submissions table has payment_status
\* 'COMPLETE'
C1_EveryPaidRowComplete ==
    \A i \in DOMAIN paid : paid[i].payment_status = "COMPLETE"

\* a row was written by a call whose payment data said FAILED, and a row
\* was written by a call without payment data
C1_Witness ==
    /\ \E i \in DOMAIN paid :
          Get(paid[i].payment_data, "payment_status") = "FAILED"
    /\ \E i \in DOMAIN paid : paid[i].payment_data = << >>

\* C2: when a notification has passed the signature check and the
\* merchant/amount validation and its payment_status is not 'COMPLETE'
\* (PENDING, FAILED, missing), the ITN handler changes neither store, sends
\* no owner or customer email, makes no store call, and returns 200 with
\* the marker action 'no_action_required'
C2_NonCompleteIsNoOp ==
    [][\A h \in Procs :
          ( /\ StepFrom(h, "itn", "confirmWithPayFast")
            /\ inv'[h].validationResult.valid
            /\ Field(inv[h].itnData, "payment_status") # "COMPLETE" )
          => /\ NothingStoredOrSent
             /\ inv'[h].pc = "done"
             /\ inv'[h].response =
                    Response(200, "ITN received", "", "no_action_required")
             /\ \A i \in DOMAIN inv'[h].calls :
                    inv'[h].calls[i][1] = "confirmWithPayFast"]_vars

\* a validated PENDING notification has been answered while the pending
\* store holds a record
C2_Witness ==
    \E h \in Procs :
        /\ inv[h].handler = "itn"
        /\ inv[h].pc = "done"
        /\ inv[h].validationResult.valid
        /\ Field(inv[h].itnData, "payment_status") = "PENDING"
        /\ inv[h].response.action = "no_action_required"
        /\ pending # <<>>

\* C3: when a POST notification does not carry the signature PayFast
\* computes for its fields, the ITN handler returns at once: it has made no
\* store call, no confirmation call and no notification call, and both
\* stores are as they were
C3_BadSignatureTouchesNothing ==
    [][\A h \in Procs :
          ( /\ inv[h].pc = "idle"
            /\ inv'[h].handler = "itn"
            /\ inv'[h].itnData # <<>>
            /\ inv'[h].itnData \notin ProviderSigned )
          => /\ NothingStoredOrSent
             /\ inv'[h].pc = "done"
             /\ inv'[h].calls = <<>>]_vars

\* a notification with a bad signature has been answered while both stores
\* hold a row
C3_Witness ==
    \E h \in Procs :
        /\ inv[h].handler = "itn"
        /\ inv[h].pc = "done"
        /\ inv[h].itnData # <<>>
        /\ inv[h].itnData \notin ProviderSigned
        /\ inv[h].response.error = "Invalid signature"
        /\ pending # <<>>
        /\ paid # <<>>

\* C4: when the ITN handler runs on a valid COMPLETE notification whose
\* submission already has a paid row (the notification was processed
\* before) and the existence check answers, the handler acknowledges a
\* duplicate ('already processed'), writes to neither store, sends no
\* email, and the submission still has exactly one paid row
C4_DuplicateAcknowledged ==
    [][\A h \in Procs :
          ( /\ StepFrom(h, "itn", "submissionExists")
            /\ LastCallOk(h)
            /\ RowsOf(paid, inv[h].submissionId) # <<>> )
          => /\ NothingStoredOrSent
             /\ inv'[h].pc = "done"
             /\ inv'[h].response =
                    Response(200, "Duplicate ITN - already processed", "", "")
             /\ Len(RowsOf(paid', inv[h].submissionId)) = 1]_vars

\* the second of two invocations has been acknowledged as a duplicate and
\* the submission has one paid row
C4_Witness ==
    \E h \in Procs :
        /\ inv[h].handler = "itn"
        /\ inv[h].pc = "done"
        /\ inv[h].response.message = "Duplicate ITN - already processed"
        /\ started = 2
        /\ Len(RowsOf(paid, inv[h].submissionId)) = 1

\* C5: however ITN handler invocations for the same submission interleave,
\* the submissions table never holds more than one row for a submission id
C5_AtMostOnePaidRowPerId ==
    \A id \in SubmissionIds : Len(RowsOf(paid, id)) <= 1

\* two invocations for the same submission are in flight, both have passed
\* the existence check and both have written the paid submission
C5_Witness ==
    \E g, h \in Procs :
        /\ g # h
        /\ inv[g].handler = "itn" /\ inv[h].handler = "itn"
        /\ inv[g].submissionId = inv[h].submissionId
        /\ CalledOk(g, "createPaidSubmission")
        /\ CalledOk(h, "createPaidSubmission")

\* C6 (the claim as stated, which the code does not keep): a submission
\* has a paid row only if a COMPLETE notification for it has passed
\* validation, and an ITN invocation that validated a COMPLETE
\* notification and whose calls all came back leaves a paid row
C6_PaidIffValidated ==
    /\ \A id \in SubmissionIds : RowsOf(paid, id) # <<>> => id \in validated
    /\ \A h \in Procs :
          ( /\ inv[h].handler = "itn"
            /\ inv[h].pc = "done"
            /\ inv[h].submissionId # ""
            /\ AllCallsOk(h) )
          => RowsOf(paid, inv[h].submissionId) # <<>>

\* C7: when a validated COMPLETE notification with a submission id finds
\* no pending record, the handler goes on to store a paid submission: once
\* the write comes back the submission has exactly one paid row, and when
\* it had none before, that row's form data is built from the
\* notification's custom_str2, name and email fields and carries _note
C7_FallbackStillPromotes ==
    [][\A h \in Procs :
          /\ ( /\ StepFrom(h, "itn", "getPendingFormData")
               /\ LastCallOk(h)
               /\ ~LivePending(inv[h].submissionId) )
             => inv'[h].pc = "createFallback"
          /\ ( /\ StepFrom(h, "itn", "createFallback")
               /\ LastCallOk(h) )
             => LET id   == inv[h].submissionId
                    rows == RowsOf(paid', id)
                IN  /\ Len(rows) = 1
                    /\ rows[1].payment_status = "COMPLETE"
                    /\ inv'[h].response.statusCode = 200
                    /\ RowsOf(paid, id) = <<>> =>
                         /\ Get(rows[1].form_data, "submissionId") = id
                         /\ Get(rows[1].form_data, "businessName") =
                                Field(inv[h].itnData, "custom_str2")
                         /\ Get(rows[1].form_data, "ownerFirstName") =
                                Field(inv[h].itnData, "name_first")
                         /\ Get(rows[1].form_data, "businessEmail") =
                                Field(inv[h].itnData, "email_address")
                         /\ Truthy(Get(rows[1].form_data, "_note"))]_vars

\* an invocation that found no pending record has been answered and the
\* submission's paid row carries the marker
C7_Witness ==
    \E h \in Procs :
        /\ inv[h].handler = "itn"
        /\ inv[h].pc = "done"
        /\ inv[h].response.message = "ITN processed with fallback data"
        /\ Len(RowsOf(paid, inv[h].submissionId)) = 1
        /\ "_note" \in DOMAIN RowsOf(paid, inv[h].submissionId)[1].form_data

\* C8: after the checkout has put form data for a submission, a valid
\* COMPLETE notification for it is promoted from the pending record: when
\* the first paid write for the submission comes back, findBySubmissionId
\* gives a row whose form data is the form data that was put, field for
\* field, and when the cleanup comes back the pending store has no record
\* for the submission
C8_PromotionKeepsFormData ==
    [][\A h \in Procs :
          /\ ( /\ StepFrom(h, "itn", "getPendingFormData")
               /\ LastCallOk(h)
               /\ LivePending(inv[h].submissionId) )
             => inv'[h].pc = "createPaidSubmission"
          /\ ( /\ StepFrom(h, "itn", "createPaidSubmission")
               /\ LastCallOk(h)
               /\ RowsOf(paid, inv[h].submissionId) = <<>> )
             => /\ Len(findBySubmissionId(paid', inv[h].submissionId)) = 1
                /\ findBySubmissionId(paid', inv[h].submissionId)[1].form_data
                      = FormData(inv[h].submissionId)
          /\ ( /\ StepFrom(h, "itn", "deletePendingFormData")
               /\ LastCallOk(h) )
             => /\ RowsOf(pending', inv[h].submissionId) = <<>>
                /\ inv'[h].response =
                      Response(200, "ITN processed successfully", "", "")]_vars

\* a notification has been promoted from a pending record: the paid row
\* holds the form data that was put and the pending record is gone
C8_Witness ==
    \E h \in Procs :
        /\ inv[h].handler = "itn"
        /\ inv[h].pc = "done"
        /\ inv[h].response.message = "ITN processed successfully"
        /\ CalledOk(h, "createPaidSubmission")
        /\ CalledOk(h, "deletePendingFormData")
        /\ findBySubmissionId(paid, inv[h].submissionId) # <<>>
        /\ findBySubmissionId(paid, inv[h].submissionId)[1].form_data
              = FormData(inv[h].submissionId)
        /\ RowsOf(pending, inv[h].submissionId) = <<>>

\* C9 (the claim as stated, which the code does not keep): whenever a
\* handler's cleanup removes the pending record of a submission, the
\* submission has a paid row
C9_DeleteOnlyAfterPromotion ==
    [][\A h \in Procs :
          ( /\ inv[h].pc = "deletePendingFormData"
            /\ inv'[h].pc # "deletePendingFormData"
            /\ RowsOf(pending, inv[h].submissionId) # <<>>
            /\ RowsOf(pending', inv[h].submissionId) = <<>> )
          => RowsOf(paid', inv[h].submissionId) # <<>>]_vars

\* C10 (the claim as stated, which the code does not keep): an ITN
\* invocation whose request is a POST with a verified signature returns
\* status 200, whatever happens after the two gates
C10_AlwaysAcknowledges ==
    \A h \in Procs :
        ( /\ inv[h].handler \in {"itn", "itn-legacy"}
          /\ inv[h].pc = "done"
          /\ inv[h].itnData \in ProviderSigned )
        => inv[h].response.statusCode = 200

\* the ITN invocation h has been turned away at a gate: the method, the
\* configuration, the signature, or the merchant/amount checks that run
\* before the confirmation call
TurnedAway(h) ==
    /\ inv[h].pc = "done"
    /\ \/ inv[h].response.error \in
              {"Method not allowed", "Server configuration error", "Invalid signature"}
       \/ /\ inv[h].calls = <<>>
          /\ inv[h].validationResult.error # ""

\* C11 (the claim as stated, which the code does not keep): an ITN
\* invocation turned away for a bad method, an unresolvable configuration,
\* an invalid signature, a merchant-id mismatch or an unparseable amount
\* returns a status outside 200..299
C11_RejectsNotAcknowledged ==
    \A h \in Procs :
        ( /\ inv[h].handler \in {"itn", "itn-legacy"}
          /\ TurnedAway(h) )
        => inv[h].response.statusCode \notin 200..299

\* the notification carries another merchant's id, or a gross amount that
\* is not a number
WrongMerchantOrAmount(data, merchantId) ==
    \/ Field(data, "merchant_id") # merchantId
    \/ ParseFloat(OrElse(Field(data, "amount_gross"), "0")) = NaN

\* C12: a correctly signed notification whose merchant_id is not the
\* configured one, or whose amount_gross is not a number, is rejected by
\* validatePayFastRequest before the confirmation call: the handler
\* returns with the validation error, having made no confirmation call, no
\* store call and no email call, and both stores are as they were
C12_HardRejectBeforeConfirmation ==
    [][\A h \in Procs :
          ( /\ inv[h].pc = "idle"
            /\ inv'[h].handler = "itn"
            /\ inv'[h].itnData \in ProviderSigned
            /\ CredentialsOf[env].ok
            /\ WrongMerchantOrAmount(inv'[h].itnData, CredentialsOf[env].merchantId) )
          => /\ NothingStoredOrSent
             /\ inv'[h].pc = "done"
             /\ inv'[h].calls = <<>>
             /\ ~inv'[h].validationResult.valid
             /\ inv'[h].response.error = inv'[h].validationResult.error
             /\ inv'[h].response.error # ""]_vars

\* a signed notification with the amount 'abc' has been turned away
\* without a call while the pending store holds a record
C12_Witness ==
    \E h \in Procs :
        /\ inv[h].handler = "itn"
        /\ inv[h].pc = "done"
        /\ inv[h].itnData \in ProviderSigned
        /\ Field(inv[h].itnData, "amount_gross") = "abc"
        /\ inv[h].response.error = "Invalid amount format"
        /\ inv[h].calls = <<>>
        /\ pending # <<>>

\* the confirmation call invocation h has just made threw (a network error
\* or the timeout)
ConfirmationThrew(h) ==
    /\ StepFrom(h, "itn", "confirmWithPayFast")
    /\ inv'[h].calls[Len(inv'[h].calls)] = <<"confirmWithPayFast", FALSE>>

\* invocation h takes the status branch: the no-op answer for a status
\* other than COMPLETE, the missing-id answer, or on to the existence check
TakesStatusBranch(h) ==
    LET paymentStatus == Field(inv[h].itnData, "payment_status")
        submissionId  == OrElse(Field(inv[h].itnData, "custom_str1"), "")
    IN  IF paymentStatus # "COMPLETE"
        THEN /\ inv'[h].pc = "done"
             /\ inv'[h].response =
                    Response(200, "ITN received", "", "no_action_required")
        ELSE IF submissionId = ""
        THEN /\ inv'[h].pc = "done"
             /\ inv'[h].response = Response(200, "", "Missing submission ID", "")
        ELSE /\ inv'[h].pc = "submissionExists"
             /\ inv'[h].submissionId = submissionId
             /\ submissionId \in validated'

\* C13: when the confirmation call fails with a network error or times
\* out, validatePayFastRequest reports the notification valid, just as it
\* does for the reply VALID, and the handler goes on to the status branch
C13_UnreachableConfirmationIsAdvisory ==
    [][\A h \in Procs :
          ConfirmationThrew(h)
          => /\ inv'[h].validationResult = [valid |-> TRUE, error |-> ""]
             /\ inv'[h].validationResult =
                    validatePayFastRequest(inv[h].itnData, CredentialsOf[env].merchantId,
                                           [failed |-> FALSE, body |-> "VALID"])
             /\ TakesStatusBranch(h)]_vars

\* an invocation whose confirmation call threw has gone on to write the
\* paid submission
C13_Witness ==
    \E h \in Procs :
        /\ inv[h].handler = "itn"
        /\ inv[h].calls # <<>>
        /\ inv[h].calls[1] = <<"confirmWithPayFast", FALSE>>
        /\ inv[h].validationResult.valid
        /\ CalledOk(h, "createPaidSubmission")
        /\ RowsOf(paid, inv[h].submissionId) # <<>>

\* C14 (the claim as stated, which the code does not keep): when the
\* confirmation endpoint answers, whatever the body of its answer, a
\* notification whose signature, merchant id and amount are valid is not
\* rejected and the handler goes on to the status branch
C14_FailedConfirmationIsAdvisory ==
    [][\A h \in Procs :
          ( /\ StepFrom(h, "itn", "confirmWithPayFast")
            /\ LastCallOk(h) )
          => /\ inv'[h].validationResult.valid
             /\ TakesStatusBranch(h)]_vars

\* the fields of a payload that the signature covers: those that stand
\* before the signature field and hold a value, in the order received
CoveredFields(data) ==
    LET at   == {i \in DOMAIN data : data[i][1] = "signature"}
        stop == IF at = {} THEN Len(data) + 1
                ELSE CHOOSE i \in at : \A j \in at : i <= j
    IN  SelectSeq(SubSeq(data, 1, stop - 1),
                  LAMBDA f : f[2] # "" /\ f[2] # Null /\ f[2] # Undefined)

\* the canonical string of a payload: key=encodedValue of the covered
\* fields joined by &, then &passphrase=<encoded secret> when there is a
\* secret
CanonicalString(data, passphrase) ==
    LET covered == CoveredFields(data)
        pairs   == [i \in DOMAIN covered |->
                       covered[i][1] \o "=" \o PayFastEncode(covered[i][2])]
    IN  IF passphrase = "" THEN JoinAmp(pairs)
        ELSE JoinAmp(pairs) \o "&passphrase=" \o PayFastEncode(passphrase)

\* the signature field of a payload as it was received, '' when there is none
ReceivedSignature(data) ==
    LET at == {i \in DOMAIN data : data[i][1] = "signature"}
    IN  IF at = {} THEN "" ELSE data[CHOOSE i \in at : TRUE][2]

\* the digest of the canonical string, the received signature in lower
\* case and the covered fields of the model's payloads, worked out once
CanonicalDigestOf ==
    [data \in SignaturePayloads, passphrase \in Passphrases |->
        MD5(CanonicalString(data, passphrase))]

LowerSignatureOf ==
    [data \in SignaturePayloads |-> ToLowerCase(ReceivedSignature(data))]

CoveredFieldsOf == [data \in SignaturePayloads |-> CoveredFields(data)]

\* two payloads whose signatures cover the same fields in different orders
SameFieldsOtherOrder(d1, d2) ==
    LET c1 == CoveredFieldsOf[d1]
        c2 == CoveredFieldsOf[d2]
    IN  /\ c1 # c2
        /\ {c1[i] : i \in DOMAIN c1} = {c2[i] : i \in DOMAIN c2}
        /\ Len(c1) = Len(c2)

\* C15 (the claim as stated, which the code does not keep for a body with
\* a key that is an array index, which the parsed object lists before the
\* other keys): validatePayFastSignature returns true exactly when the
\* received signature is, in any letter case, the digest of the canonical string:
\* the fields in the order received, up to the signature field, empty ones
\* skipped, the passphrase appended only when it is not empty; and a
\* signature that verifies for a payload does not verify for a payload
\* that holds the same fields in another order
C15_SignatureIsDigestOfCanonicalString ==
    /\ \A i \in DOMAIN sigChecks :
          sigChecks[i].isValid
          <=> LowerSignatureOf[sigChecks[i].data]
                  = CanonicalDigestOf[sigChecks[i].data, sigChecks[i].passphrase]
    /\ \A i, j \in DOMAIN sigChecks :
          ( /\ sigChecks[i].passphrase = sigChecks[j].passphrase
            /\ LowerSignatureOf[sigChecks[i].data] = LowerSignatureOf[sigChecks[j].data]
            /\ SameFieldsOtherOrder(sigChecks[i].data, sigChecks[j].data) )
          => ~(sigChecks[i].isValid /\ sigChecks[j].isValid)

\* a payload up to and including its signature field; the whole payload
\* when it has none
ThroughSignature(data) ==
    LET at == {i \in DOMAIN data : data[i][1] = "signature"}
    IN  IF at = {} THEN data
        ELSE SubSeq(data, 1, CHOOSE i \in at : \A j \in at : i <= j)

ThroughSignatureOf == [data \in SignaturePayloads |-> ThroughSignature(data)]

\* C16 (the claim as stated, which the code does not keep when a key that
\* is an array index follows the signature, because the parsed object
\* lists it before the signature): two payloads that agree on every field
\* up to and including the signature field and differ only in what stands
\* after it get the same
\* answer from validatePayFastSignature under the same passphrase
C16_SignatureIsTerminator ==
    \A i, j \in DOMAIN sigChecks :
        ( /\ sigChecks[i].passphrase = sigChecks[j].passphrase
          /\ ReceivedSignature(ThroughSignatureOf[sigChecks[i].data]) # ""
          /\ ThroughSignatureOf[sigChecks[i].data] = ThroughSignatureOf[sigChecks[j].data] )
        => sigChecks[i].isValid = sigChecks[j].isValid

\* C17: the pending store never holds more than one record for a
\* submission id, and a put for an id leaves that id with one record: the
\* form data just put, created_at now and expires_at now + 2 h, which the
\* default get returns, whatever record the id had before (an expired one
\* too); the records of other ids stay as they are
C17_PendingUpsertRefreshes ==
    /\ [](\A id \in SubmissionIds : Len(RowsOf(pending, id)) <= 1)
    /\ [][\A id \in SubmissionIds :
             ( /\ puts' = puts + 1
               /\ lastPut'.submissionId = id )
             => /\ Len(RowsOf(pending', id)) = 1
                /\ RowsOf(pending', id)[1].form_data = lastPut'.formData
                /\ RowsOf(pending', id)[1].created_at = now
                /\ RowsOf(pending', id)[1].expires_at = now + TwoHours
                /\ getPendingFormData(pending', id, now', FALSE) = RowsOf(pending', id)
                /\ \A other \in SubmissionIds \ {id} :
                      RowsOf(pending', other) = RowsOf(pending, other)]_vars

\* the latest put found a record of its id that had expired and held other
\* form data; the id has one record, which the default get returns
C17_Witness ==
    \E id \in SubmissionIds :
        /\ lastPut.submissionId = id
        /\ lastPut.found # <<>>
        /\ Len(RowsOf(pending, id)) = 1
        /\ lastPut.found[1].expires_at <= RowsOf(pending, id)[1].created_at
        /\ lastPut.found[1].form_data # RowsOf(pending, id)[1].form_data
        /\ RowsOf(pending, id)[1].form_data = lastPut.formData
        /\ getPendingFormData(pending, id, now, FALSE) # <<>>

\* C18: getPendingFormData leaves the store as it is; for an id whose
\* record has expires_at in the past the default call returns nothing and
\* the call with ignoreExpiry returns that record
C18_ExpiredHiddenUnlessIgnoreExpiry ==
    [][lastGet' # lastGet
       => /\ pending' = pending
          /\ \A i \in DOMAIN pending :
                ( /\ pending[i].submission_id = lastGet'.submissionId
                  /\ pending[i].expires_at < now )
                => lastGet'.rows = IF lastGet'.ignoreExpiry
                                   THEN <<pending[i]>> ELSE <<>>]_vars

\* a call with ignoreExpiry has returned a record whose expiry is in the
\* past, and the record is still in the store
C18_Witness ==
    /\ lastGet.ignoreExpiry
    /\ lastGet.rows # <<>>
    /\ lastGet.rows[1].expires_at < now
    /\ lastGet.rows[1].submission_id = lastGet.submissionId
    /\ \E i \in DOMAIN pending : pending[i] = lastGet.rows[1]

\* a step that is a direct call of createPaidSubmission for an id that
\* already has a row
CreateOnExistingRow ==
    /\ started' = started + 1
    /\ lastCreate'.found # <<>>

\* C19: when createPaidSubmission is called for an id that already has a
\* row, whatever form data the call passes, the id keeps one row whose
\* form_data, business name, owner names, email, phone, industry and
\* created_at are those it had; the rows of other ids stay as they are
C19_ConflictKeepsFormData ==
    [][CreateOnExistingRow
       => LET id   == lastCreate'.submissionId
              old  == lastCreate'.found[1]
              rows == RowsOf(paid', id)
          IN  /\ Len(rows) = 1
              /\ rows[1].form_data = old.form_data
              /\ rows[1].business_name = old.business_name
              /\ rows[1].owner_first_name = old.owner_first_name
              /\ rows[1].owner_last_name = old.owner_last_name
              /\ rows[1].email = old.email
              /\ rows[1].phone = old.phone
              /\ rows[1].industry = old.industry
              /\ rows[1].created_at = old.created_at
              /\ \A other \in SubmissionIds \ {id} :
                    RowsOf(paid', other) = RowsOf(paid, other)]_vars

\* the latest call passed form data other than the row's and a payment id
\* other than the row's: the row has the new payment id, a later
\* updated_at, and the form data and business name it had
C19_Witness ==
    \E id \in SubmissionIds :
        /\ lastCreate.submissionId = id
        /\ lastCreate.found # <<>>
        /\ Len(RowsOf(paid, id)) = 1
        /\ lastCreate.formData # lastCreate.found[1].form_data
        /\ RowsOf(paid, id)[1].form_data = lastCreate.found[1].form_data
        /\ RowsOf(paid, id)[1].business_name = "Acme Ltd"
        /\ RowsOf(paid, id)[1].payfast_payment_id # lastCreate.found[1].payfast_payment_id
        /\ RowsOf(paid, id)[1].updated_at > RowsOf(paid, id)[1].created_at

\* the payment-metadata columns a second write leaves alone when its
\* payment data has no value for them
KeepsScalarMetadata(old, new, paymentData) ==
    /\ ( Get(paymentData, "pf_payment_id") = Undefined
         /\ Get(paymentData, "pfPaymentId") = Undefined )
       => new.payfast_payment_id = old.payfast_payment_id
    /\ Get(paymentData, "token") = Undefined
       => new.subscription_token = old.subscription_token
    /\ Get(paymentData, "amount_gross") = Undefined
       => new.amount_gross = old.amount_gross
    /\ Get(paymentData, "amount_net") = Undefined
       => new.amount_net = old.amount_net

\* C20 (the claim as stated, which the code does not keep): when
\* createPaidSubmission is called for an id that already has a row, every
\* payment-metadata column for which the call's payment data has no value
\* keeps the value it had, and a call without payment data leaves the
\* stored raw payment_data as it was
C20_ConflictMergesPaymentMetadata ==
    [][CreateOnExistingRow
       => LET old == lastCreate'.found[1]
              new == RowsOf(paid', lastCreate'.submissionId)[1]
          IN  /\ KeepsScalarMetadata(old, new, lastCreate'.paymentData)
              /\ lastCreate'.paymentData = << >>
                 => new.payment_data = old.payment_data]_vars

\* invocation h has made call `name`, whether it came back or threw
Attempted(h, name) ==
    \E i \in DOMAIN inv[h].calls : inv[h].calls[i][1] = name

\* the names of the calls invocation h has made, in order
CallNames(h) ==
    [i \in DOMAIN inv[h].calls |-> inv[h].calls[i][1]]

\* the form data invocation h promotes: the pending record's, or the object
\* made up from the notification when no pending record was found
PromotedFormData(h) ==
    IF inv[h].fullFormData # <<>>
    THEN inv[h].fullFormData
    ELSE fallbackFormData(inv[h].submissionId, inv[h].itnData)

\* C21: when the paid-store create fails for a validated, non-duplicate
\* COMPLETE notification, the invocation still attempts the owner
\* notification and (when the form data has an address) the customer
\* notification and returns 200, whether the form data came from the
\* pending store or was made up in the recovery branch
C21_FailedCreateStillNotifies ==
    \A h \in Procs :
        ( /\ inv[h].handler = "itn"
          /\ inv[h].pc = "done"
          /\ \E i \in DOMAIN inv[h].calls :
                 inv[h].calls[i] = <<"createPaidSubmission", FALSE>> )
        => /\ inv[h].response.statusCode = 200
           /\ Attempted(h, "sendFullFormNotificationEmail")
           /\ Truthy(Get(PromotedFormData(h), "businessEmail"))
                  => Attempted(h, "sendWelcomeEmail")

\* the calls of the Complete path from the promotion on, with and without
\* the customer notification
CompletePathCalls ==
    { <<"createPaidSubmission", "sendFullFormNotificationEmail",
        "sendWelcomeEmail", "deletePendingFormData">>,
      <<"createPaidSubmission", "sendFullFormNotificationEmail",
        "deletePendingFormData">> }

\* the calls of invocation h from its first createPaidSubmission on
FromPromotion(h) ==
    LET names == CallNames(h)
        at    == {i \in DOMAIN names : names[i] = "createPaidSubmission"}
    IN  IF at = {} THEN <<>>
        ELSE SubSeq(names, CHOOSE i \in at : \A j \in at : i <= j, Len(names))

\* C22: every returned invocation that reached the promotion went through
\* Promote, Notify(Owner), Notify(Customer), Cleanup and was acknowledged
\* with the success response; the owner notification is attempted also
\* when no pending record was found and the form data was made up
C22_CompletePathOrder ==
    \A h \in Procs :
        ( /\ inv[h].handler = "itn"
          /\ inv[h].pc = "done"
          /\ Attempted(h, "createPaidSubmission") )
        => /\ FromPromotion(h) \in CompletePathCalls
           /\ inv[h].response = Response(200, "ITN processed successfully", "", "")

\* invocation h takes the owner-notification or the customer-notification
\* step and the call throws
NotificationFails(h) ==
    /\ \/ StepFrom(h, "itn", "sendFullFormNotificationEmail")
       \/ StepFrom(h, "itn", "sendWelcomeEmail")
    /\ ~LastCallOk(h)

\* C23: the owner and the customer notification are independent and
\* best-effort: a step in which either one fails leaves the paid and the
\* pending store as they are and goes on to the next step of the pipeline
\* (the customer notification when the form has an address, the cleanup
\* otherwise) without returning; and every returned invocation that
\* attempted the owner notification also attempted the customer
\* notification (when the form has an address) and the pending cleanup and
\* returned the 200 success response, whatever the notifications' outcomes
C23_NotificationsAreBestEffort ==
    /\ [][\A h \in Procs :
            NotificationFails(h)
            => /\ paid' = paid
               /\ pending' = pending
               /\ inv'[h].response = NoResponse
               /\ inv'[h].pc =
                      IF /\ inv[h].pc = "sendFullFormNotificationEmail"
                         /\ Truthy(Get(inv[h].fullFormData, "businessEmail"))
                      THEN "sendWelcomeEmail"
                      ELSE "deletePendingFormData"]_vars
    /\ [](\A h \in Procs :
            ( /\ inv[h].handler = "itn"
              /\ inv[h].pc = "done"
              /\ Attempted(h, "sendFullFormNotificationEmail") )
            => /\ Truthy(Get(inv[h].fullFormData, "businessEmail"))
                      => Attempted(h, "sendWelcomeEmail")
               /\ Attempted(h, "deletePendingFormData")
               /\ inv[h].response = Response(200, "ITN processed successfully", "", ""))

\* an invocation has returned the success response after both notifications
\* failed: the paid row is there and the pending row is gone
C23_Witness ==
    \E h \in Procs :
        /\ inv[h].handler = "itn"
        /\ inv[h].pc = "done"
        /\ \E i, j \in DOMAIN inv[h].calls :
               /\ inv[h].calls[i] = <<"sendFullFormNotificationEmail", FALSE>>
               /\ inv[h].calls[j] = <<"sendWelcomeEmail", FALSE>>
        /\ CalledOk(h, "createPaidSubmission")
        /\ CalledOk(h, "deletePendingFormData")
        /\ submissionExists(paid, inv[h].submissionId)
        /\ ~LivePending(inv[h].submissionId)
        /\ inv[h].response.statusCode = 200

\* the external calls of the ITN handler in the order of its steps 6 to 15
PipelineOrder ==
    <<"confirmWithPayFast", "submissionExists", "initializeSchema",
      "getPendingFormData", "createPaidSubmission",
      "sendFullFormNotificationEmail", "sendWelcomeEmail",
      "deletePendingFormData">>

\* the sequences of calls that keep the order of PipelineOrder and make no
\* call twice: its subsequences
InPipelineOrder ==
    { [i \in 1..Cardinality(S) |->
          PipelineOrder[CHOOSE k \in S : Cardinality({m \in S : m < k}) = i - 1]] :
      S \in SUBSET (DOMAIN PipelineOrder) }

\* C24: within one invocation the external steps run one at a time in the
\* order signature check, server confirmation, status branch, duplicate
\* check, pending lookup, paid-store create, owner notification, customer
\* notification, pending delete, acknowledgment: the calls an invocation has
\* made are in that order without repeats, none is made for a notification
\* whose signature does not verify, none after a status other than COMPLETE
\* past the confirmation, the success response comes only after the pending
\* delete, each step adds one call, and the pending record is never deleted
\* before the paid-store create has been attempted
C24_StepsRunInOrder ==
    /\ [](\A h \in Procs :
            inv[h].handler = "itn"
            => /\ CallNames(h) \in InPipelineOrder
               /\ inv[h].calls # <<>>
                      => /\ inv[h].itnData \in ProviderSigned
                         /\ inv[h].calls[1][1] = "confirmWithPayFast"
               /\ Len(inv[h].calls) > 1
                      => IsCompleteStatus(Field(inv[h].itnData, "payment_status"))
               /\ Attempted(h, "getPendingFormData")
                      => CalledOk(h, "submissionExists")
               /\ Attempted(h, "createPaidSubmission")
                      => CalledOk(h, "getPendingFormData")
               /\ inv[h].response.message = "ITN processed successfully"
                      => inv[h].calls[Len(inv[h].calls)][1] = "deletePendingFormData")
    /\ [][\A h \in Procs :
            /\ inv[h].handler = "itn" /\ inv'[h].handler = "itn"
                   => \/ inv'[h].calls = inv[h].calls
                      \/ /\ Len(inv'[h].calls) = Len(inv[h].calls) + 1
                         /\ SubSeq(inv'[h].calls, 1, Len(inv[h].calls)) = inv[h].calls
            /\ StepFrom(h, "itn", "deletePendingFormData")
                   => /\ Attempted(h, "createPaidSubmission")
                      /\ Attempted(h, "sendFullFormNotificationEmail")]_vars

\* an invocation has returned after every call of the pipeline, in order
C24_Witness ==
    \E h \in Procs :
        /\ inv[h].handler = "itn"
        /\ inv[h].pc = "done"
        /\ CallNames(h) = PipelineOrder
        /\ inv[h].response.message = "ITN processed successfully"

\* the submission ids with a row in `table`
IdsIn(table) == {table[i].submission_id : i \in DOMAIN table}

\* C29: promotion goes one way: a submission with a paid row has one in
\* every later state, and a step that adds or rewrites a pending row is a
\* call of storePendingFormData by the checkout with the customer's form,
\* never a step of a notification handler and never made from a paid row
C29_PromotionIsOneWay ==
    [][/\ IdsIn(paid) \subseteq IdsIn(paid')
       /\ Len(paid') >= Len(paid)
       /\ (\E i \in DOMAIN pending' :
               \A j \in DOMAIN pending : pending[j] # pending'[i])
          => /\ puts' = puts + 1
             /\ inv' = inv
             /\ paid' = paid
             /\ \A i \in DOMAIN pending' :
                    (\A j \in DOMAIN pending : pending[j] # pending'[i])
                    => pending'[i].form_data = FormData(pending'[i].submission_id)]_vars

\* a submission has been promoted and cleaned up, and a later notification
\* for another submission has been processed too: the first paid row is
\* still there and its pending row has not come back
C29_Witness ==
    /\ Len(paid) = 2
    /\ \E i \in DOMAIN paid :
           /\ Get(paid[i].form_data, "_note") = Undefined
           /\ ~LivePending(paid[i].submission_id)
           /\ \A j \in DOMAIN pending :
                  pending[j].submission_id # paid[i].submission_id

\* C30: a request to the ITN handler whose method is not POST is answered
\* at once with 405 'Method not allowed', whatever the configuration and
\* whatever its body: the invocation has returned, it holds no parsed
\* notification and no validation result, it has made no external call
\* (store, confirmation, email), and the step changes neither store and
\* sends nothing
C30_NonPostIsRejectedAtOnce ==
    [][\A h \in Procs, event \in ItnEvents :
          (Receive(h, event) /\ event.httpMethod # "POST")
          => /\ inv'[h] = [Fresh EXCEPT
                              !.handler = "itn",
                              !.pc = "done",
                              !.response = Response(405, "", "Method not allowed", "")]
             /\ inv'[h].itnData = <<>>
             /\ inv'[h].calls = <<>>
             /\ NothingStoredOrSent
             /\ validated' = validated]_vars

\* under a configuration that cannot be loaded, an invocation has returned
\* 405: the method was looked at before the configuration
C30_Witness ==
    /\ ~CredentialsOf[env].ok
    /\ \E h \in Procs :
           /\ inv[h].handler = "itn"
           /\ inv[h].pc = "done"
           /\ inv[h].response.statusCode = 405
           /\ inv[h].calls = <<>>

\* the response of invocation h carries a payment form
HasForm(h) == "body" \in DOMAIN inv[h].response

\* C25: the checkout answers with the payment form only after
\* storePendingFormData(submissionId, formData) has succeeded, and the
\* form's custom_str1 input carries that submissionId (HTML-escaped like
\* every input value): a returned invocation with a form has a submission
\* id, its last call is the successful write, the pending store holds the
\* row for that id with the form data the handler built, and custom_str1 is
\* that id; an invocation without a submission id, with a failed reCAPTCHA
\* or with a failed write has returned no form and no 200
C25_FormOnlyAfterPendingWrite ==
    \A h \in Procs :
        (inv[h].handler = "redirect" /\ inv[h].pc = "done")
        => /\ HasForm(h) <=> inv[h].response.statusCode = 200
           /\ HasForm(h)
                 => /\ Truthy(inv[h].submissionId)
                    /\ inv[h].calls[Len(inv[h].calls)] = <<"storePendingFormData", TRUE>>
                    /\ \E i \in DOMAIN pending :
                           /\ pending[i].submission_id = inv[h].submissionId
                           /\ pending[i].form_data =
                                  JsonRoundTrip(pendingData(inv[h].requestData,
                                      inv[h].fullFormData, inv[h].submissionId,
                                      inv[h].timestamp))
                           /\ Get(pending[i].form_data, "submissionId") = inv[h].submissionId
                    /\ Field(inv[h].response.body.inputs, "custom_str1")
                           = escapeHtml(inv[h].submissionId)
                    /\ Field(inv[h].response.body.inputs, "m_payment_id")
                           = escapeHtml(inv[h].submissionId)
           /\ ( \/ ~Truthy(inv[h].submissionId)
                \/ \E i \in DOMAIN inv[h].calls :
                       inv[h].calls[i] \in { <<"verifyRecaptcha", FALSE>>,
                                             <<"initializeSchema", FALSE>>,
                                             <<"storePendingFormData", FALSE>> } )
                 => ~HasForm(h) /\ inv[h].response.statusCode # 200

\* the checkout has answered with the payment form for the id that HTML
\* has to escape, after the write of its form data
C25_Witness ==
    \E h \in Procs :
        /\ inv[h].handler = "redirect"
        /\ inv[h].pc = "done"
        /\ HasForm(h)
        /\ inv[h].submissionId = "S&1"
        /\ Field(inv[h].response.body.inputs, "custom_str1") = "S&amp;1"
        /\ CalledOk(h, "storePendingFormData")
        /\ \E i \in DOMAIN pending : pending[i].submission_id = "S&1"

\* a request of the appendToDatabase call that had a 4xx answer was the
\* call's last
NoRequestAfter4xx ==
    \A i \in DOMAIN dbClient.call.results :
        Is4xx(dbClient.call.results[i]) => i = Len(dbClient.call.results)

\* no data that has had a 4xx answer is put on the retry queue
NoQueueingAfter4xx ==
    (dbClient.call.pc = "done" /\ dbClient.call.refused)
    => dbClient.call.outcome = "threw"

\* processRetryQueue posts no entry that has had a 4xx answer
NoQueuePostAfter4xx ==
    dbClient.run.pc = "makeRequest"
    => ~dbClient.retryQueue[dbClient.run.index].refused

\* C26: a 4xx answer of the remote API is never retried: makeRequestWithRetry
\* makes no further request after it, appendToDatabase does not queue the
\* data, and processRetryQueue does not post the entry again
C26_ClientErrorNeverRetried ==
    /\ NoRequestAfter4xx
    /\ NoQueueingAfter4xx
    /\ NoQueuePostAfter4xx

\* 2^n
RECURSIVE Pow2(_)
Pow2(n) == IF n = 0 THEN 1 ELSE 2 * Pow2(n - 1)

\* the appendToDatabase call is inside makeRequestWithRetry
InRetryLoop == dbClient.call.pc \in {"makeRequest", "sleep"}

\* C27: makeRequestWithRetry always ends: it makes at most MAX_RETRIES (3)
\* attempts; before attempt n + 1 it has slept n times, the base delay
\* first and twice the last delay each time after; a successful answer is
\* the call's last request and is what it returns; after the third failure
\* it throws without sleeping or trying again; and a call that is in the
\* loop leaves it
C27_RetryLoopEnds ==
    /\ [](LET call == dbClient.call
          IN  /\ call.attempt <= MAX_RETRIES
              /\ Len(call.results) <= MAX_RETRIES
              /\ Len(call.results) = IF call.pc = "makeRequest"
                                     THEN call.attempt - 1 ELSE call.attempt
              /\ Len(call.slept) = IF call.attempt = 0 THEN 0 ELSE call.attempt - 1
              /\ \A i \in DOMAIN call.slept :
                     call.slept[i] = RETRY_DELAY_MS * Pow2(i - 1)
              /\ \A i \in DOMAIN call.results :
                     call.results[i].ok
                     => /\ i = Len(call.results)
                        /\ call.pc = "done"
                        /\ call.loop = "returned"
              /\ call.pc = "sleep"
                     => /\ call.attempt < MAX_RETRIES
                        /\ ~call.results[Len(call.results)].ok
              /\ (call.pc = "done" /\ call.loop = "threw")
                     => ~call.results[Len(call.results)].ok)
    /\ (InRetryLoop ~> dbClient.call.pc = "done")

\* a call has thrown after three failed attempts and two sleeps, of 500 and
\* of 1000 ms
C27_Witness ==
    /\ dbClient.call.pc = "done"
    /\ dbClient.call.loop = "threw"
    /\ dbClient.call.outcome = "threw"
    /\ Len(dbClient.call.results) = 3
    /\ \A i \in 1..3 : ~dbClient.call.results[i].ok
    /\ dbClient.call.slept = <<500, 1000>>

\* the data appendToDatabase can be called with in the model
ClientData ==
    SubmissionIds \cup {"TEMP-" \o ToString(n) : n \in 1..(MaxAppends + 1)}

\* the retry queue holds an entry with data d
Queued(d) ==
    \E i \in DOMAIN dbClient.retryQueue : dbClient.retryQueue[i].data = d

\* C28: data queued by appendToDatabase is not lost: in a container that is
\* not restarted, with an API that becomes and stays reachable, every
\* queued entry is eventually POSTed with success and off the retry queue
C28_QueuedDataIsDelivered ==
    \A d \in ClientData :
        Queued(d) ~> (d \in dbClient.delivered /\ ~Queued(d))

\* the configuration of environment e resolves: the mode, trimmed and
\* lower-cased, is one of the two valid values and the merchant id, the
\* merchant key and the passphrase variable of that mode are set
ConfigResolves(e) ==
    LET mode   == Get(e, "PAYFAST_MODE")
        active == IF Truthy(mode) THEN ToLowerCase(Trim(mode)) ELSE ""
        prefix == IF active = "live" THEN "PAYFAST_LIVE_" ELSE "PAYFAST_SANDBOX_"
    IN  /\ active \in {"sandbox", "live"}
        /\ \A v \in {"MERCHANT_ID", "MERCHANT_KEY", "PASSPHRASE"} :
               (prefix \o v) \in DOMAIN e

\* ConfigResolves on the model's environments, worked out once
ConfigResolvesOf == [e \in ConfigEnvs |-> ConfigResolves(e)]

\* C31: when the PayFast configuration does not resolve (the mode is not
\* one of the two valid values after trimming and lower-casing, or the
\* merchant id, merchant key or passphrase variable of the active mode is
\* missing), the ITN handler processes no payload: the invocation returns
\* in its first step holding no parsed notification and no validation
\* result, having made no external call (confirmation, store, email); the
\* step changes neither store and sends nothing, and no invocation is ever
\* past its first step
C31_UnresolvedConfigProcessesNothing ==
    /\ [][\A h \in Procs :
             ( /\ ~ConfigResolvesOf[env]
               /\ inv[h].pc = "idle"
               /\ inv'[h].handler = "itn" )
             => /\ inv'[h].pc = "done"
                /\ inv'[h].itnData = <<>>
                /\ inv'[h].validationResult = Fresh.validationResult
                /\ inv'[h].calls = <<>>
                /\ inv'[h].response.error \in
                       {"Server configuration error", "Method not allowed"}
                /\ NothingStoredOrSent
                /\ validated' = validated]_vars
    /\ [](~ConfigResolvesOf[env] =>
             /\ paid = <<>>
             /\ validated = {}
             /\ \A h \in Procs : inv[h].pc \in {"idle", "done"})

\* with the merchant key of the active mode not set, a POST notification
\* has been answered with the configuration error while the checkout's
\* pending record is in the store
C31_Witness ==
    /\ Get(env, "PAYFAST_MODE") = GoodEnv.PAYFAST_MODE
    /\ "PAYFAST_SANDBOX_MERCHANT_KEY" \notin DOMAIN env
    /\ pending # <<>>
    /\ \E h \in Procs :
           /\ inv[h].handler = "itn"
           /\ inv[h].pc = "done"
           /\ inv[h].response.error = "Server configuration error"

\* the rows of the submissions table for submission id
PaidRows(table, id) == SelectSeq(table, LAMBDA r : r.submission_id = id)

\* C32: however concurrent ITN invocations for one submission interleave
\* with the expiry of its pending record and with the expiry sweep, when
\* an invocation that found the pending record has its createPaidSubmission
\* call succeed, the paid row of the submission holds the full pending form
\* data (and so not the incomplete fallback of another invocation)
C32_PromotedRowHoldsPendingForm ==
    [][\A h \in Procs :
          ( /\ StepFrom(h, "itn", "createPaidSubmission")
            /\ LastCallOk(h) )
          => /\ PaidRows(paid', inv[h].submissionId) # <<>>
             /\ \A i \in DOMAIN paid' :
                    paid'[i].submission_id = inv[h].submissionId
                    => /\ paid'[i].form_data = JsonRoundTrip(inv[h].fullFormData)
                       /\ "_note" \notin DOMAIN paid'[i].form_data]_vars


\* the invocations in flight
InFlight == { g \in Procs : inv[g].pc # "idle" }

\* C33: however concurrent ITN invocations carrying the same valid COMPLETE
\* notification interleave, the owner notification email is sent at most
\* once per submission id: while no invocation has ended yet and no
\* external call has failed, an invocation sends the owner notification
\* only for a submission that has had none
C33_OwnerNotifiedAtMostOnce ==
    [][\A h \in Procs :
          ( /\ StepFrom(h, "itn", "sendFullFormNotificationEmail")
            /\ LastCallOk(h)
            /\ started = Cardinality(InFlight)
            /\ \A g \in InFlight : AllCallsOk(g) )
          => ownerEmails[inv[h].submissionId] = 0]_vars

\* the calls of steps 9 to 11, which the handler awaits outside any try of
\* their own
LookupCalls == {"submissionExists", "initializeSchema", "getPendingFormData"}

\* the call invocation h has just made threw
LastCallThrew(h) ==
    /\ inv'[h].calls # <<>>
    /\ ~inv'[h].calls[Len(inv'[h].calls)][2]

\* C34: when submissionExists, initializeSchema or getPendingFormData
\* throws while the handler processes a validated COMPLETE notification,
\* the handler returns 200 'ITN received with errors': the step changes
\* neither store and sends nothing, and the invocation has made no call
\* that creates a paid submission, sends a notification or deletes the
\* pending record
C34_LookupFailureIsAcknowledged ==
    [][\A h \in Procs : \A at \in LookupCalls :
          ( /\ StepFrom(h, "itn", at)
            /\ LastCallThrew(h) )
          => /\ inv'[h].pc = "done"
             /\ inv'[h].response.statusCode = 200
             /\ inv'[h].response.message = "ITN received with errors"
             /\ NothingStoredOrSent
             /\ \A i \in DOMAIN inv'[h].calls :
                    inv'[h].calls[i][1] \in LookupCalls \cup {"confirmWithPayFast"}]_vars

\* with the checkout's pending record in the store, an invocation has been
\* answered 'ITN received with errors' after its pending lookup threw, and
\* the record is still there
C34_Witness ==
    \E h \in Procs :
        /\ inv[h].handler = "itn"
        /\ inv[h].pc = "done"
        /\ inv[h].calls # <<>>
        /\ inv[h].calls[Len(inv[h].calls)] = <<"getPendingFormData", FALSE>>
        /\ inv[h].response.message = "ITN received with errors"
        /\ LivePending(inv[h].submissionId)
        /\ paid = <<>>

\* C35: a validated COMPLETE notification whose custom_str1 is empty or
\* absent is acknowledged with 200 and the error 'Missing submission ID':
\* the invocation returns with the confirmation as its only external call
\* (no pending record read or deleted, no paid submission created, no
\* notification sent), and the step changes neither store and sends nothing
C35_MissingIdIsAcknowledged ==
    [][\A h \in Procs :
          ( /\ StepFrom(h, "itn", "confirmWithPayFast")
            /\ inv'[h].validationResult.valid
            /\ Field(inv[h].itnData, "payment_status") = "COMPLETE"
            /\ Field(inv[h].itnData, "custom_str1") \in {"", Undefined} )
          => /\ inv'[h].pc = "done"
             /\ inv'[h].response = Response(200, "", "Missing submission ID", "")
             /\ \A i \in DOMAIN inv'[h].calls :
                    inv'[h].calls[i][1] = "confirmWithPayFast"
             /\ NothingStoredOrSent
             /\ validated' = validated]_vars

\* with a pending record in the store, a validated COMPLETE notification
\* that carries no custom_str1 at all has been answered 'Missing submission
\* ID'
C35_Witness ==
    \E h \in Procs :
        /\ inv[h].handler = "itn"
        /\ inv[h].pc = "done"
        /\ inv[h].validationResult.valid
        /\ Field(inv[h].itnData, "payment_status") = "COMPLETE"
        /\ Field(inv[h].itnData, "custom_str1") = Undefined
        /\ inv[h].response.error = "Missing submission ID"
        /\ pending # <<>>

\* the ids of the entries of queue q
QueueIds(q) == { q[k].id : k \in DOMAIN q }

\* the ids the pass in flight has marked for removal
Marked(c) == { c.run.successfulIds[k] : k \in DOMAIN c.run.successfulIds }

\* the entry whose POST is in flight, 0 when none is
PostingAt(c) == IF c.run.pc = "makeRequest" THEN c.run.index ELSE 0

\* the loop of a processing pass moves in this step: a pass begins, goes on
\* from a POST that came back, or ends
LoopMoves ==
    \/ dbClient'.run # dbClient.run
    \/ Len(dbClient'.retryQueue) < Len(dbClient.retryQueue)

\* every entry has been counted at most maxAttempts = 5 times
CountedAtMostFive ==
    \A k \in DOMAIN dbClient.retryQueue :
        /\ dbClient.retryQueue[k].maxAttempts = 5
        /\ dbClient.retryQueue[k].attempts <= dbClient.retryQueue[k].maxAttempts

\* an entry is counted once for every POST made for it and never otherwise:
\* its count rises by one exactly when the step leaves its POST in flight
CountedPerPost ==
    \A k \in DOMAIN dbClient.retryQueue : \A j \in DOMAIN dbClient'.retryQueue :
        dbClient'.retryQueue[j].id = dbClient.retryQueue[k].id
        => LET posts == LoopMoves /\ PostingAt(dbClient') = j
           IN  dbClient'.retryQueue[j].attempts =
                   dbClient.retryQueue[k].attempts + (IF posts THEN 1 ELSE 0)

\* an entry at its limit that the loop comes to is marked for removal, or
\* is gone when the pass ends in the same step, and is not posted
LimitEntriesAreDropped ==
    \A k \in DOMAIN dbClient.retryQueue :
        ( /\ LoopMoves
          /\ dbClient.retryQueue[k].attempts >= dbClient.retryQueue[k].maxAttempts
          /\ k > PostingAt(dbClient)
          /\ (PostingAt(dbClient') # 0 => k < PostingAt(dbClient')) )
        => IF PostingAt(dbClient') # 0
           THEN dbClient.retryQueue[k].id \in Marked(dbClient')
           ELSE dbClient.retryQueue[k].id \notin QueueIds(dbClient'.retryQueue)

\* what a pass has marked stays marked until the pass ends, and is then
\* out of the queue
MarkedEntriesLeave ==
    PostingAt(dbClient) # 0
    => IF PostingAt(dbClient') # 0
       THEN Marked(dbClient) \subseteq Marked(dbClient')
       ELSE Marked(dbClient) \cap QueueIds(dbClient'.retryQueue) = {}

\* C36: over any sequence of queueForRetry and processRetryQueue calls, no
\* retry-queue entry is POSTed more than maxAttempts (5) times, and an
\* entry that has reached 5 failed attempts is removed from the queue by
\* the next processing pass without being POSTed again
C36_EntryPostedAtMostFiveTimes ==
    /\ []CountedAtMostFive
    /\ [][CountedPerPost]_vars
    /\ [][LimitEntriesAreDropped]_vars
    /\ [][MarkedEntriesLeave]_vars

\* two entries have been queued, no POST has ever succeeded, and both
\* entries have left the queue: each was dropped at its limit
C36_Witness ==
    /\ dbClient.queued >= 2
    /\ dbClient.delivered = {}
    /\ dbClient.retryQueue = <<>>
    /\ ~dbClient.isProcessingQueue

\* at most one processing pass is in flight
OnePassAtATime == dbClient.passes <= 1

\* the flag is down whenever no pass is in flight, and no entry whose POST
\* succeeded is then left in the queue
FlagDownBetweenPasses ==
    (dbClient.passes = 0 \/ dbClient.run.pc = "idle")
    => /\ ~dbClient.isProcessingQueue
       /\ \A k \in DOMAIN dbClient.retryQueue : ~dbClient.retryQueue[k].posted

\* no POST is made for an entry whose POST has succeeded: its count stays
\* and the loop does not stop at it
PostedEntriesRest ==
    \A k \in DOMAIN dbClient.retryQueue : \A j \in DOMAIN dbClient'.retryQueue :
        ( /\ dbClient.retryQueue[k].posted
          /\ dbClient'.retryQueue[j].id = dbClient.retryQueue[k].id )
        => /\ dbClient'.retryQueue[j].attempts = dbClient.retryQueue[k].attempts
           /\ PostingAt(dbClient') # j

\* C37: however queueForRetry and processRetryQueue calls interleave, also
\* when they are made while a pass is suspended on a POST, at most one
\* processing pass iterates the retry queue at a time, an entry whose POST
\* succeeded is never POSTed again, and isProcessingQueue is false whenever
\* no pass is in flight
C37_OnePassAndNoRepost ==
    /\ []OnePassAtATime
    /\ []FlagDownBetweenPasses
    /\ [][PostedEntriesRest]_vars

\* a pass begun by the queueing of the first entry has had that entry's
\* only POST succeed and is now suspended on the POST of a second entry,
\* which was queued while the pass was suspended
C37_Witness ==
    /\ Len(dbClient.retryQueue) = 2
    /\ dbClient.retryQueue[1].posted
    /\ dbClient.retryQueue[1].attempts = 1
    /\ dbClient.retryQueue[2].attempts = 1
    /\ PostingAt(dbClient) = 2
    /\ dbClient.isProcessingQueue
    /\ dbClient.passes = 1

\* row is a row of table
HasRow(table, row) == \E j \in DOMAIN table : table[j] = row

\* C38: cleanupExpiredPendingData never deletes a record that a
\* default-mode getPendingFormData at the same instant would return: the
\* sweep adds and changes no row, deletes only rows with expires_at < now,
\* keeps every row with expires_at > now as it is (its form data included),
\* and the default-mode lookup of every submission id returns the same
\* after the sweep as before
C38_CleanupSparesLiveRecords ==
    [][CleanupExpired
       => /\ \A j \in DOMAIN pending' : HasRow(pending, pending'[j])
          /\ \A i \in DOMAIN pending :
                 /\ ~HasRow(pending', pending[i]) => pending[i].expires_at < now
                 /\ pending[i].expires_at > now => HasRow(pending', pending[i])
          /\ \A id \in SubmissionIds :
                 getPendingFormData(pending', id, now, FALSE)
                     = getPendingFormData(pending, id, now, FALSE)]_vars

\* a sweep at the current hour has deleted an expired record while a record
\* that has not expired is in the store
C38_Witness ==
    /\ lastCleanup.deleted # <<>>
    /\ lastCleanup.at = now
    /\ \E i \in DOMAIN pending : pending[i].expires_at > now
    /\ \A i \in DOMAIN pending, k \in DOMAIN lastCleanup.deleted :
           pending[i].submission_id # lastCleanup.deleted[k].submission_id

\* what the claim has each function answer to a call without a submission
\* id
WithoutIdAnswer(op) ==
    CASE op \in {"getPendingFormData", "findBySubmissionId"} -> "null"
      [] op \in {"deletePendingFormData", "submissionExists"} -> "false"
      [] op \in {"storePendingFormData", "createPaidSubmission"} -> "threw"

\* C39: a store operation called with an empty or missing submission id
\* never touches the database: getPendingFormData and findBySubmissionId
\* return null, deletePendingFormData and submissionExists return false,
\* storePendingFormData and createPaidSubmission throw, each without
\* sending a query, and both stores are as they were
C39_NoIdNoQuery ==
    [][\A op \in StoreFunctions : \A id \in {"", Undefined, Null} :
       \A fd \in StoreFormData :
          StoreCall(op, id, fd)
          => /\ ~lastCall'.queried
             /\ lastCall'.returned = WithoutIdAnswer(op)
             /\ pending' = pending
             /\ paid' = paid]_vars

\* with a row in each store, storePendingFormData has been called without
\* a submission id and has thrown
C39_Witness ==
    /\ lastCall.op = "storePendingFormData"
    /\ lastCall.submissionId = Undefined
    /\ lastCall.returned = "threw"
    /\ pending # <<>>
    /\ paid # <<>>

=============================================================================
